---------------------------- MODULE Spec2Model ----------------------------
(***************************************************************************)
(* Table reconciliation engine of PDFExtractor                             *)
(* (src/src/document_processing/extractors/pdf.py): border classifier,     *)
(* multi-backend extraction with fallback, structure refinement, header    *)
(* similarity and the cross-page merge pass; and the request batching of  *)
(* the remote vision-model calls.                                          *)
(*                                                                         *)
(* A Python str is a sequence of one-character strings; a Python dict is a *)
(* record whose DOMAIN is the set of keys present; a Python float that is  *)
(* a ratio of small integers is kept as that ratio [num, den] (the bounds  *)
(* keep every ratio far from the rounding error of a double, and 1 - 1/5   *)
(* and 7/10 round to the doubles of the literals 0.8 and 0.7).             *)
(***************************************************************************)
EXTENDS Integers, Sequences, FiniteSets, TLC

VARIABLES
    ssA, ssB, ssOut, ssPc,            \* _string_similarity: arguments, result
    hdr1, hdr2, hdrOut, hdrPc,        \* _are_headers_similar: arguments, result
    cpTables,                         \* _handle_cross_page_tables: the list passed in (sorted in place)
    cpGiven,                          \* the list as it was when the call was made
    cpOut, cpPc,                      \* the list returned, and the position of the call
    rfTable,                          \* _refine_table_structure: the table passed in
    rfOut, rfOut2,                    \* refine(table) and refine(refine(table))
    rfPc,
    bdPage,                           \* _detect_table_borders: the page (drawings, text blocks)
    bdRaise,                          \* which page call raised during the inspection
    bdOut, bdPc,
    exCfg,                            \* _extract_tables_unified: config['table_extraction']
    exIn,                             \* its arguments page_number and has_borders
    exMethod,                         \* the local variable method
    exTables,                         \* the local variable tables
    exCalls,                          \* the backend calls made so far, with what each returned
    exPc,
    docLibs,                          \* extract_tables: HAS_CAMELOT, HAS_TABULA, HAS_PDFPLUMBER
    docRecognizer,                    \* a TableStructureRecognizer could be built
    docPages,                         \* what the processing of each page of doc does
    docIdx,                           \* the pages the loop has gone through
    docAll,                           \* the local variable all_tables
    docOut, docPc,
    relT1, relT2,                     \* _are_tables_related: arguments
    relOut, relPc,                    \* and result
    btCfg,                            \* request batching: config['request_batching']
    btLists,                          \* the list objects created so far for current_batch
    btCurrent,                        \* the one self.current_batch refers to
    btTasks,                          \* the coroutines called so far, in call order
    btExecuted                        \* how many times each request has been executed

strVars == <<ssA, ssB, ssOut, ssPc>>
hdrVars == <<hdr1, hdr2, hdrOut, hdrPc>>
cpVars == <<cpTables, cpGiven, cpOut, cpPc>>
rfVars == <<rfTable, rfOut, rfOut2, rfPc>>
bdVars == <<bdPage, bdRaise, bdOut, bdPc>>
exVars == <<exCfg, exIn, exMethod, exTables, exCalls, exPc>>
docVars == <<docLibs, docRecognizer, docPages, docIdx, docAll, docOut, docPc>>
relVars == <<relT1, relT2, relOut, relPc>>
btVars == <<btCfg, btLists, btCurrent, btTasks, btExecuted>>
vars == <<strVars, hdrVars, cpVars, rfVars, bdVars, exVars, docVars, relVars, btVars>>

\* what the actions of one specification leave alone
notStr == <<hdrVars, cpVars, rfVars, bdVars, exVars, docVars, relVars, btVars>>
notHdr == <<strVars, cpVars, rfVars, bdVars, exVars, docVars, relVars, btVars>>
notCp == <<strVars, hdrVars, rfVars, bdVars, exVars, docVars, relVars, btVars>>
notRf == <<strVars, hdrVars, cpVars, bdVars, exVars, docVars, relVars, btVars>>
notBd == <<strVars, hdrVars, cpVars, rfVars, exVars, docVars, relVars, btVars>>
notDoc == <<strVars, hdrVars, cpVars, rfVars, bdVars, exVars, relVars, btVars>>
notRel == <<strVars, hdrVars, cpVars, rfVars, bdVars, exVars, docVars, btVars>>
notEx == <<strVars, hdrVars, cpVars, rfVars, bdVars, docVars, relVars, btVars>>
notBt == <<strVars, hdrVars, cpVars, rfVars, bdVars, exVars, docVars, relVars>>

---------------------------------------------------------------------------
(* Bounds *)

MaxStrLen == 3
MaxHeaders == 3
MaxTables == 3
MaxPage == 3
MaxRows == 3
MaxPaths == 10
MaxColumns == 10
MaxTasks == 5
MaxBatchSize == 2
MaxRetries == 3
MaxBatchLen == 3

---------------------------------------------------------------------------
(* Python str helpers *)

Chars == {"a", "b", "A", " "}

Max2(a, b) == IF a >= b THEN a ELSE b
Min2(a, b) == IF a <= b THEN a ELSE b
Min3(a, b, c) == Min2(a, Min2(b, c))
Abs(a) == IF a < 0 THEN -a ELSE a

\* str.lower() on one character
LowerChar(c) == IF c = "A" THEN "a" ELSE IF c = "B" THEN "b" ELSE c

\* str.lower()
Lower(s) == [i \in 1..Len(s) |-> LowerChar(s[i])]

IsSpace(c) == c = " "

RECURSIVE LStrip(_)
LStrip(s) == IF s # <<>> /\ IsSpace(Head(s)) THEN LStrip(Tail(s)) ELSE s

RECURSIVE RStrip(_)
RStrip(s) ==
    IF s # <<>> /\ IsSpace(s[Len(s)]) THEN RStrip(SubSeq(s, 1, Len(s) - 1)) ELSE s

\* str.strip()
Strip(s) == RStrip(LStrip(s))

---------------------------------------------------------------------------
(* _string_similarity (pdf.py 1584-1636) *)

SimZero == [num |-> 0, den |-> 1]
SimOne == [num |-> 1, den |-> 1]

\* the inner loop "for j, c2 in enumerate(s2)" building current_row
RECURSIVE LevRow(_, _, _, _)
LevRow(previous_row, current_row, c1, s2) ==
    IF Len(current_row) = Len(s2) + 1 THEN current_row
    ELSE LET k == Len(current_row)
             insertions == previous_row[k + 1] + 1
             deletions == current_row[k] + 1
             substitutions == previous_row[k] + (IF c1 # s2[k] THEN 1 ELSE 0)
         IN  LevRow(previous_row,
                    Append(current_row, Min3(insertions, deletions, substitutions)),
                    c1, s2)

\* the outer loop "for i, c1 in enumerate(s1)"
RECURSIVE LevRows(_, _, _, _)
LevRows(previous_row, s1, i, s2) ==
    IF i > Len(s1) THEN previous_row
    ELSE LevRows(LevRow(previous_row, <<i>>, s1[i], s2), s1, i + 1, s2)

LevDistance(s1, s2) ==
    LET last == LevRows([k \in 1..(Len(s2) + 1) |-> k - 1], s1, 1, s2)
    IN  last[Len(last)]

\* the body after normalisation, with s1 at least as long as s2
SimilarityOrdered(s1, s2) ==
    LET max_len == Max2(Len(s1), Len(s2))
        distance == LevDistance(s1, s2)
    IN  IF max_len > 0 THEN [num |-> max_len - distance, den |-> max_len] ELSE SimOne

StringSimilarityMutNoEmptyCheck(a, b) ==
    LET s1 == Strip(Lower(a))
        s2 == Strip(Lower(b))
    IN  IF s1 = s2 THEN SimOne
        ELSE IF Len(s1) < Len(s2) THEN SimilarityOrdered(s2, s1)
        ELSE SimilarityOrdered(s1, s2)

StringSimilarity(a, b) ==
    LET s1 == Strip(Lower(a))
        s2 == Strip(Lower(b))
    IN  IF s1 = <<>> \/ s2 = <<>> THEN SimZero
        ELSE IF s1 = s2 THEN SimOne
        ELSE IF Len(s1) < Len(s2) THEN SimilarityOrdered(s2, s1)
        ELSE SimilarityOrdered(s1, s2)

\* sim > p/q for a float literal p/q
SimGt(sim, p, q) == sim.num * q > p * sim.den
\* sim == 1.0, sim == 0.0
SimIsOne(sim) == sim.num = sim.den
SimIsZero(sim) == sim.num = 0

---------------------------------------------------------------------------
(* _are_headers_similar (pdf.py 1548-1582) *)

RECURSIVE SimilarityCount(_, _, _)
SimilarityCount(h1, h2, i) ==
    IF i > Min2(Len(h1), Len(h2)) THEN 0
    ELSE (IF SimGt(StringSimilarity(h1[i], h2[i]), 8, 10) THEN 1 ELSE 0)
         + SimilarityCount(h1, h2, i + 1)

AreHeadersSimilarMutNoLenCheck(headers1, headers2) ==
    IF headers1 = <<>> \/ headers2 = <<>> THEN FALSE
    ELSE LET str_headers1 == [i \in 1..Len(headers1) |-> Lower(Strip(headers1[i]))]
             str_headers2 == [i \in 1..Len(headers2) |-> Lower(Strip(headers2[i]))]
         IN  SimilarityCount(str_headers1, str_headers2, 1) * 10
                 > 7 * Min2(Len(str_headers1), Len(str_headers2))

\* a ratio of exactly 0.7 taken as similar
AreHeadersSimilarMutAtLeast(headers1, headers2) ==
    IF headers1 = <<>> \/ headers2 = <<>> THEN FALSE
    ELSE LET str_headers1 == [i \in 1..Len(headers1) |-> Lower(Strip(headers1[i]))]
             str_headers2 == [i \in 1..Len(headers2) |-> Lower(Strip(headers2[i]))]
         IN  IF Len(str_headers1) # Len(str_headers2) THEN FALSE
             ELSE SimilarityCount(str_headers1, str_headers2, 1) * 10
                      >= 7 * Len(str_headers1)

AreHeadersSimilar(headers1, headers2) ==
    IF headers1 = <<>> \/ headers2 = <<>> THEN FALSE
    ELSE LET str_headers1 == [i \in 1..Len(headers1) |-> Lower(Strip(headers1[i]))]
             str_headers2 == [i \in 1..Len(headers2) |-> Lower(Strip(headers2[i]))]
         IN  IF Len(str_headers1) # Len(str_headers2) THEN FALSE
             ELSE SimilarityCount(str_headers1, str_headers2, 1) * 10
                      > 7 * Len(str_headers1)

---------------------------------------------------------------------------
(* Specification SpecStr: calls of _string_similarity on bounded strings *)

NoSim == [num |-> -1, den |-> 1]

NoCfg == [method |-> "auto"]
NoArgs == [page_number |-> 0]
ExIdle ==
    /\ exCfg = NoCfg /\ exIn = NoArgs /\ exMethod = "" /\ exTables = <<>>
    /\ exCalls = <<>> /\ exPc = "idle"
NoLibraries == [camelot |-> FALSE, tabula |-> FALSE, pdfplumber |-> FALSE]
DocIdle ==
    /\ docLibs = NoLibraries /\ docRecognizer = FALSE /\ docPages = <<>> /\ docIdx = 0
    /\ docAll = <<>> /\ docOut = <<>> /\ docPc = "idle"
NoTable == [id |-> <<0, 0>>]
RelIdle == relT1 = NoTable /\ relT2 = NoTable /\ relOut = FALSE /\ relPc = "idle"
NoPage == [paths |-> <<>>, blocks |-> <<>>]
BdIdle == bdPage = NoPage /\ bdRaise = "none" /\ bdOut = FALSE /\ bdPc = "idle"
RfIdle == rfTable = NoTable /\ rfOut = NoTable /\ rfOut2 = NoTable /\ rfPc = "idle"
CpIdle == cpTables = <<>> /\ cpGiven = <<>> /\ cpOut = <<>> /\ cpPc = "idle"
NoBatchConfig == [enabled |-> FALSE, batch_size |-> 0, max_retries |-> 0]
BtIdle ==
    /\ btCfg = NoBatchConfig /\ btLists = <<>> /\ btCurrent = 0
    /\ btTasks = <<>> /\ btExecuted = <<>>
StrIdle == ssA = <<>> /\ ssB = <<>> /\ ssOut = NoSim /\ ssPc = "idle"
HdrIdle == hdr1 = <<>> /\ hdr2 = <<>> /\ hdrOut = FALSE /\ hdrPc = "idle"

StrInit ==
    /\ ssA = <<>> /\ ssB = <<>> /\ ssOut = NoSim /\ ssPc = "args"
    /\ HdrIdle /\ CpIdle /\ RfIdle /\ BdIdle /\ ExIdle /\ DocIdle /\ RelIdle /\ BtIdle

SsAppendA(c) ==
    /\ ssPc = "args" /\ ssB = <<>> /\ Len(ssA) < MaxStrLen
    /\ ssA' = Append(ssA, c)
    /\ UNCHANGED <<ssB, ssOut, ssPc, notStr>>

SsAppendB(c) ==
    /\ ssPc = "args" /\ Len(ssB) < MaxStrLen
    /\ ssB' = Append(ssB, c)
    /\ UNCHANGED <<ssA, ssOut, ssPc, notStr>>

SsCall ==
    /\ ssPc = "args"
    /\ ssOut' = StringSimilarity(ssA, ssB)
    /\ ssPc' = "returned"
    /\ UNCHANGED <<ssA, ssB, notStr>>

StrNext ==
    \/ \E c \in Chars : SsAppendA(c)
    \/ \E c \in Chars : SsAppendB(c)
    \/ SsCall

SpecStr == StrInit /\ [][StrNext]_vars

---------------------------------------------------------------------------
(* Specification SpecHdr: calls of _are_headers_similar on bounded lists *)

\* header cells: "ab", " AB" (equal to "ab" once trimmed and case-folded),
\* "ac" (one edit from "ab": similarity 1/2) and the blank cell
HeaderCells == {<<"a", "b">>, <<" ", "A", "B">>, <<"a", "c">>, <<>>}

HdrInit ==
    /\ hdr1 = <<>> /\ hdr2 = <<>> /\ hdrOut = FALSE /\ hdrPc = "args"
    /\ StrIdle /\ CpIdle /\ RfIdle /\ BdIdle /\ ExIdle /\ DocIdle /\ RelIdle /\ BtIdle

HdrAppend1(s) ==
    /\ hdrPc = "args" /\ hdr2 = <<>> /\ Len(hdr1) < MaxHeaders
    /\ hdr1' = Append(hdr1, s)
    /\ UNCHANGED <<hdr2, hdrOut, hdrPc, notHdr>>

HdrAppend2(s) ==
    /\ hdrPc = "args" /\ Len(hdr2) < MaxHeaders
    /\ hdr2' = Append(hdr2, s)
    /\ UNCHANGED <<hdr1, hdrOut, hdrPc, notHdr>>

HdrCall ==
    /\ hdrPc = "args"
    /\ hdrOut' = AreHeadersSimilar(hdr1, hdr2)
    /\ hdrPc' = "returned"
    /\ UNCHANGED <<hdr1, hdr2, notHdr>>

HdrNext ==
    \/ \E s \in HeaderCells : HdrAppend1(s)
    \/ \E s \in HeaderCells : HdrAppend2(s)
    \/ HdrCall

SpecHdr == HdrInit /\ [][HdrNext]_vars

(* Specification SpecHdrWide: calls of _are_headers_similar on two lists   *)
(* of one length, up to MaxColumns columns, grown a column at a time.      *)

\* the two cells of a column: equal once trimmed and case-folded
\* (similarity 1), one edit in five characters (4/5)
ColumnPairs ==
    { << <<"a", "b">>, <<" ", "A", "B">> >>,
      << <<"a", "a", "a", "a", "b">>, <<"a", "a", "a", "a", "a">> >> }

\* one edit in six characters (5/6), tried as the first column
NearColumnPair ==
    << <<"a", "a", "a", "a", "a", "b">>, <<"a", "a", "a", "a", "a", "a">> >>

HdrWideInit ==
    /\ hdr1 = <<>> /\ hdr2 = <<>> /\ hdrOut = FALSE /\ hdrPc = "args"
    /\ StrIdle /\ CpIdle /\ RfIdle /\ BdIdle /\ ExIdle /\ DocIdle /\ RelIdle /\ BtIdle

HdrAppendColumn(c) ==
    /\ hdrPc = "args" /\ Len(hdr1) < MaxColumns
    /\ hdr1' = Append(hdr1, c[1])
    /\ hdr2' = Append(hdr2, c[2])
    /\ UNCHANGED <<hdrOut, hdrPc, notHdr>>

HdrWideNext ==
    \/ \E c \in ColumnPairs : HdrAppendColumn(c)
    \/ (hdr1 = <<>> /\ HdrAppendColumn(NearColumnPair))
    \/ HdrCall

SpecHdrWide == HdrWideInit /\ [][HdrWideNext]_vars

---------------------------------------------------------------------------
(* Specification SpecHdrSelf: _are_headers_similar(h, h) on one header     *)
(* list h of up to MaxColumns entries, blank ("" and, as the first entry,  *)
(* a whitespace-only string) and non-blank, so that exactly 70% of the     *)
(* entries can be non-blank.                                               *)

SelfCells == {<<>>, <<" ", "A", "b">>}
WhitespaceCell == <<" ">>

HdrSelfAppend(s) ==
    /\ hdrPc = "args" /\ Len(hdr1) < MaxColumns
    /\ hdr1' = Append(hdr1, s)
    /\ hdr2' = Append(hdr2, s)
    /\ UNCHANGED <<hdrOut, hdrPc, notHdr>>

HdrSelfNext ==
    \/ \E s \in SelfCells : HdrSelfAppend(s)
    \/ (hdr1 = <<>> /\ HdrSelfAppend(WhitespaceCell))
    \/ HdrCall

SpecHdrSelf == HdrWideInit /\ [][HdrSelfNext]_vars

---------------------------------------------------------------------------
(* Python dict helpers: a dict is a record, its keys are its DOMAIN *)

Get(d, k, default) == IF k \in DOMAIN d THEN d[k] ELSE default

\* d[k] = v on a copy of d
Put(d, k, v) == [x \in (DOMAIN d) \cup {k} |-> IF x = k THEN v ELSE d[x]]

\* seq[start_idx:] for a 0-based start_idx
SliceFrom(seq, start_idx) == SubSeq(seq, start_idx + 1, Len(seq))

---------------------------------------------------------------------------
(* The table dicts the three backends build.  A DataFrame df is the        *)
(* sequence of its rows, all of one width; df.empty is df = <<>>.  The id  *)
(* f"table_{page_number}_{i+1}" is kept as the pair <<page_number, i+1>>,  *)
(* the confidence accuracy / 100.0 as the ratio [num, den].                *)

DfWidth(df) == IF df = <<>> THEN 0 ELSE Len(df[1])

\* _extract_with_camelot, the body of the loop over the tables found
CamelotTableDict(page_number, i, flavor, accuracy, bbox, df, header_extraction) ==
    LET table_dict ==
            [id |-> <<page_number, i + 1>>,
             page |-> page_number,
             extraction_method |-> "camelot_" \o flavor,
             confidence |-> [num |-> accuracy, den |-> 100],
             bbox |-> bbox,
             headers |-> IF df # <<>> THEN df[1] ELSE <<>>,
             rows |-> IF df # <<>> THEN df ELSE <<>>,
             num_rows |-> IF df # <<>> THEN Len(df) ELSE 0,
             num_cols |-> IF df # <<>> THEN DfWidth(df) ELSE 0]
    IN  IF header_extraction /\ df # <<>>
        THEN [table_dict EXCEPT !.headers = df[1], !.rows = Tail(df)]
        ELSE table_dict

\* _extract_with_tabula, the body of the loop over the non-empty frames
TabulaTableDict(page_number, i, lattice, df, header_extraction) ==
    LET table_dict ==
            [id |-> <<page_number, i + 1>>,
             page |-> page_number,
             extraction_method |-> "tabula_" \o (IF lattice THEN "lattice" ELSE "guess"),
             confidence |-> [num |-> 7, den |-> 10],
             bbox |-> <<0, 0, 0, 0>>,
             headers |-> IF df # <<>> THEN df[1] ELSE <<>>,
             rows |-> IF df # <<>> THEN df ELSE <<>>,
             num_rows |-> IF df # <<>> THEN Len(df) ELSE 0,
             num_cols |-> IF df # <<>> THEN DfWidth(df) ELSE 0]
    IN  IF header_extraction /\ df # <<>>
        THEN [table_dict EXCEPT !.headers = df[1], !.rows = Tail(df)]
        ELSE table_dict

\* _extract_with_pdfplumber, the body of the loop; rows are the cleaned rows
\* of a non-empty table_data
PlumberTableDict(page_number, i, rows, header_extraction) ==
    LET table_dict ==
            [id |-> <<page_number, i + 1>>,
             page |-> page_number,
             extraction_method |-> "pdfplumber_text_text",
             confidence |-> [num |-> 6, den |-> 10],
             bbox |-> <<0, 0, 0, 0>>,
             headers |-> IF rows # <<>> THEN rows[1] ELSE <<>>,
             rows |-> IF Len(rows) > 1 THEN Tail(rows) ELSE <<>>,
             num_rows |-> IF Len(rows) > 1 THEN Len(rows) - 1 ELSE 0,
             num_cols |-> IF rows # <<>> THEN Len(rows[1]) ELSE 0]
    IN  IF ~header_extraction /\ rows # <<>>
        THEN [table_dict EXCEPT !.headers = <<>>, !.rows = rows, !.num_rows = Len(rows)]
        ELSE table_dict

---------------------------------------------------------------------------
(* _are_tables_related (pdf.py 1492-1546) *)

\* the column counts not compared
\* a comparison of the column counts alone, without the header test
DataSignalsAgreeMutNoHeaders(table1, table2) ==
    LET data1 == Get(table1, "data", <<>>)
        data2 == Get(table2, "data", <<>>)
    IN  IF data1 = <<>> \/ data2 = <<>> THEN FALSE
        ELSE ~(Len(data1[1]) # Len(data2[1]) \/ Len(data1[1]) = 0)

DataSignalsAgreeMutNoCount(table1, table2) ==
    LET data1 == Get(table1, "data", <<>>)
        data2 == Get(table2, "data", <<>>)
    IN  IF data1 = <<>> \/ data2 = <<>> THEN FALSE
        ELSE LET headers1 == data1[1]
                 headers2 == data2[1]
             IN  ~(headers1 # <<>> /\ headers2 # <<>>
                   /\ ~AreHeadersSimilar(headers1, headers2))

\* step 1 and 2: column counts and first rows of the two data fields
DataSignalsAgree(table1, table2) ==
    LET data1 == Get(table1, "data", <<>>)
        data2 == Get(table2, "data", <<>>)
    IN  IF data1 = <<>> \/ data2 = <<>> THEN FALSE
        ELSE LET col_count1 == Len(data1[1])
                 col_count2 == Len(data2[1])
                 headers1 == data1[1]
                 headers2 == data2[1]
             IN  IF col_count1 # col_count2 \/ col_count1 = 0 THEN FALSE
                 ELSE ~(headers1 # <<>> /\ headers2 # <<>>
                        /\ ~AreHeadersSimilar(headers1, headers2))

\* step 3: abs(width1 - width2) / max_width > 0.2 disqualifies
WidthsAgreeMutStrict(table1, table2) ==
    LET width1 == table1.bbox[3] - table1.bbox[1]
        width2 == table2.bbox[3] - table2.bbox[1]
    IN  width1 = width2

\* a difference of exactly 20% taken as disqualifying
WidthsAgreeMutAtLeast(table1, table2) ==
    LET width1 == table1.bbox[3] - table1.bbox[1]
        width2 == table2.bbox[3] - table2.bbox[1]
        max_width == Max2(width1, width2)
    IN  ~(max_width > 0 /\ 10 * Abs(width1 - width2) >= 2 * max_width)

WidthsAgree(table1, table2) ==
    LET width1 == table1.bbox[3] - table1.bbox[1]
        width2 == table2.bbox[3] - table2.bbox[1]
        max_width == Max2(width1, width2)
    IN  ~(max_width > 0 /\ 10 * Abs(width1 - width2) > 2 * max_width)

AreTablesRelated(table1, table2) ==
    IF "data" \in DOMAIN table1 /\ "data" \in DOMAIN table2
          /\ ~DataSignalsAgree(table1, table2)
    THEN FALSE
    ELSE IF "bbox" \in DOMAIN table1 /\ "bbox" \in DOMAIN table2
               /\ Len(table1.bbox) >= 4 /\ Len(table2.bbox) >= 4
               /\ ~WidthsAgree(table1, table2)
    THEN FALSE
    ELSE TRUE

---------------------------------------------------------------------------
(* _merge_tables (pdf.py 1638-1676) *)

\* a text field holding None instead of a str is kept as the string below,
\* which no text of the model equals
NoneText == "<None>"

\* table1.get('text', '') + '\n' + table2.get('text', '') is a TypeError when
\* one of the two is not a str
MergeRaises(table1, table2) ==
    Get(table1, "text", "") = NoneText \/ Get(table2, "text", "") = NoneText

MergedData(table1, table2) ==
    LET data1 == table1.data
        data2 == table2.data
        start_idx == IF Len(data1) > 0 /\ Len(data2) > 0
                        /\ AreHeadersSimilar(data1[1], data2[1])
                     THEN 1 ELSE 0
    IN  data1 \o SliceFrom(data2, start_idx)

MergeTablesMutNoSuffix(table1, table2) ==
    Put(Put(table1, "page_range", <<Get(table1, "page", 0), Get(table2, "page", 0)>>),
        "is_cross_page", TRUE)

MergeTables(table1, table2) ==
    LET copied == table1
        withData == IF "data" \in DOMAIN table1 /\ "data" \in DOMAIN table2
                    THEN Put(copied, "data", MergedData(table1, table2))
                    ELSE copied
        withText == Put(withData, "text",
                        Get(table1, "text", "") \o "\n" \o Get(table2, "text", ""))
        withRange == Put(withText, "page_range",
                         <<Get(table1, "page", 0), Get(table2, "page", 0)>>)
        withMethod == Put(withRange, "extraction_method",
                          Get(table1, "extraction_method", "unknown") \o "_cross_page")
    IN  Put(withMethod, "is_cross_page", TRUE)

---------------------------------------------------------------------------
(* _handle_cross_page_tables (pdf.py 1447-1490) *)

\* the sort key (page, top y of the bbox, 0 without a usable bbox)
SortKey(t) ==
    <<Get(t, "page", 0),
      IF "bbox" \in DOMAIN t /\ Len(Get(t, "bbox", <<>>)) >= 2
      THEN Get(t, "bbox", <<0, 0, 0, 0>>)[2] ELSE 0>>

\* tuple comparison k1 < k2
KeyLess(k1, k2) == k1[1] < k2[1] \/ (k1[1] = k2[1] /\ k1[2] < k2[2])

\* an insertion that puts x before the elements of equal key
RECURSIVE InsertSortedMutUnstable(_, _)
InsertSortedMutUnstable(sorted, x) ==
    IF sorted = <<>> THEN <<x>>
    ELSE IF ~KeyLess(SortKey(Head(sorted)), SortKey(x)) THEN <<x>> \o sorted
    ELSE <<Head(sorted)>> \o InsertSortedMutUnstable(Tail(sorted), x)

\* list.sort is stable: x goes after every element whose key is not greater
RECURSIVE InsertSorted(_, _)
InsertSorted(sorted, x) ==
    IF sorted = <<>> THEN <<x>>
    ELSE IF KeyLess(SortKey(x), SortKey(Head(sorted))) THEN <<x>> \o sorted
    ELSE <<Head(sorted)>> \o InsertSorted(Tail(sorted), x)

RECURSIVE SortTables(_)
SortTables(tables) ==
    IF tables = <<>> THEN <<>>
    ELSE InsertSorted(SortTables(SubSeq(tables, 1, Len(tables) - 1)),
                      tables[Len(tables)])

\* a scan that goes on from the merged table instead of skipping both
RECURSIVE ScanTablesMutChained(_, _, _)
ScanTablesMutChained(tables, i, merged_tables) ==
    IF i > Len(tables) THEN merged_tables
    ELSE IF i + 1 <= Len(tables)
            /\ Get(tables[i + 1], "page", 0) = Get(tables[i], "page", 0) + 1
            /\ AreTablesRelated(tables[i], tables[i + 1])
    THEN ScanTablesMutChained(
             [tables EXCEPT ![i + 1] =
                 Put(MergeTables(tables[i], tables[i + 1]), "page",
                     Get(tables[i + 1], "page", 0))],
             i + 1, merged_tables)
    ELSE ScanTablesMutChained(tables, i + 1, Append(merged_tables, tables[i]))

\* a scan that merges a table with its related successor whatever its page
RECURSIVE ScanTablesMutAnyPage(_, _, _)
ScanTablesMutAnyPage(tables, i, merged_tables) ==
    IF i > Len(tables) THEN merged_tables
    ELSE IF i + 1 <= Len(tables)
            /\ AreTablesRelated(tables[i], tables[i + 1])
    THEN ScanTablesMutAnyPage(tables, i + 2,
                    Append(merged_tables, MergeTables(tables[i], tables[i + 1])))
    ELSE ScanTablesMutAnyPage(tables, i + 1, Append(merged_tables, tables[i]))

\* a scan that steps by one after a merge: the second table comes up again
RECURSIVE ScanTablesMutNoSkip(_, _, _)
ScanTablesMutNoSkip(tables, i, merged_tables) ==
    IF i > Len(tables) THEN merged_tables
    ELSE IF i + 1 <= Len(tables)
            /\ Get(tables[i + 1], "page", 0) = Get(tables[i], "page", 0) + 1
            /\ AreTablesRelated(tables[i], tables[i + 1])
    THEN ScanTablesMutNoSkip(tables, i + 1,
                    Append(merged_tables, MergeTables(tables[i], tables[i + 1])))
    ELSE ScanTablesMutNoSkip(tables, i + 1, Append(merged_tables, tables[i]))

\* the while loop; i is the 1-based position of current_table
RECURSIVE ScanTables(_, _, _)
ScanTables(tables, i, merged_tables) ==
    IF i > Len(tables) THEN merged_tables
    ELSE IF i + 1 <= Len(tables)
            /\ Get(tables[i + 1], "page", 0) = Get(tables[i], "page", 0) + 1
            /\ AreTablesRelated(tables[i], tables[i + 1])
    THEN ScanTables(tables, i + 2,
                    Append(merged_tables, MergeTables(tables[i], tables[i + 1])))
    ELSE ScanTables(tables, i + 1, Append(merged_tables, tables[i]))

\* the while loop leaves through the except clause: some merge it makes
\* raises
RECURSIVE ScanRaises(_, _)
ScanRaises(tables, i) ==
    IF i > Len(tables) THEN FALSE
    ELSE IF i + 1 <= Len(tables)
            /\ Get(tables[i + 1], "page", 0) = Get(tables[i], "page", 0) + 1
            /\ AreTablesRelated(tables[i], tables[i + 1])
    THEN MergeRaises(tables[i], tables[i + 1]) \/ ScanRaises(tables, i + 2)
    ELSE ScanRaises(tables, i + 1)

\* the list object after the call: sorted in place unless the call returned
\* at once
TablesAfterCall(tables) ==
    IF Len(tables) < 2 THEN tables ELSE SortTables(tables)

\* the value returned: merged_tables, or in the except clause the list
\* object tables as the sort left it
HandleCrossPageTables(tables) ==
    IF Len(tables) < 2 THEN tables
    ELSE IF ScanRaises(SortTables(tables), 1) THEN SortTables(tables)
    ELSE ScanTables(SortTables(tables), 1, <<>>)

---------------------------------------------------------------------------
(* Specification SpecCp: one call of _handle_cross_page_tables on a list   *)
(* of up to MaxTables tables on pages 1..MaxPage, each either a table as a *)
(* backend builds it (fields headers and rows) or a table carrying a data  *)
(* field, the shape _are_tables_related and _merge_tables read.            *)

S_ab == <<"a", "b">>
S_ac == <<"a", "c">>
S_x == <<"x">>
S_y == <<"y">>

DfA == <<<<S_ab, S_ac>>, <<S_x, S_y>>>>
DfB == <<<<S_ab, S_ac>>, <<S_y, S_x>>, <<S_x, S_x>>>>
DfX == <<<<S_ac, S_ab>>, <<S_x, S_y>>>>

TableKinds == {"camelotA", "camelotB", "tabula", "data", "dataX"}

\* the table of kind k found as the i-th (0-based) table of page p
MakeTable(k, p, i) ==
    CASE k = "camelotA" ->
            CamelotTableDict(p, i, "lattice", 95, <<0, 10, 100, 50>>, DfA, TRUE)
      [] k = "camelotB" ->
            CamelotTableDict(p, i, "stream", 90, <<0, 20, 98, 60>>, DfB, TRUE)
      [] k = "tabula" ->
            TabulaTableDict(p, i, FALSE, DfA, TRUE)
      [] k = "data" ->
            [id |-> <<p, i + 1>>, page |-> p, bbox |-> <<0, 30, 90, 70>>,
             data |-> DfA, text |-> "t"]
      [] k = "dataX" ->
            [id |-> <<p, i + 1>>, page |-> p, bbox |-> <<0, 30, 90, 70>>,
             data |-> DfX, text |-> "u"]
      [] k = "dataNoneText" ->
            [id |-> <<p, i + 1>>, page |-> p, bbox |-> <<0, 15, 90, 70>>,
             data |-> DfA, text |-> NoneText]
      [] k = "dataNoBBox" ->
            [id |-> <<p, i + 1>>, page |-> p, data |-> DfA, text |-> "v"]

CountOnPage(tables, p) == Cardinality({j \in 1..Len(tables) : tables[j].page = p})

CpInit ==
    /\ cpTables = <<>> /\ cpGiven = <<>> /\ cpOut = <<>> /\ cpPc = "args"
    /\ StrIdle /\ HdrIdle /\ RfIdle /\ BdIdle /\ ExIdle /\ DocIdle /\ RelIdle /\ BtIdle

CpAddTable(k, p) ==
    /\ cpPc = "args" /\ Len(cpTables) < MaxTables
    /\ cpTables' = Append(cpTables, MakeTable(k, p, CountOnPage(cpTables, p)))
    /\ UNCHANGED <<cpGiven, cpOut, cpPc, notCp>>

\* fewer than two tables: the list is returned as it is
CpCallShort ==
    /\ cpPc = "args" /\ Len(cpTables) < 2
    /\ cpGiven' = cpTables
    /\ cpOut' = cpTables
    /\ cpPc' = "returned"
    /\ UNCHANGED <<cpTables, notCp>>

\* the sort (in place) and the scan
CpCall ==
    /\ cpPc = "args" /\ Len(cpTables) >= 2
    /\ cpGiven' = cpTables
    /\ cpTables' = TablesAfterCall(cpTables)
    /\ cpOut' = HandleCrossPageTables(cpTables)
    /\ cpPc' = "returned"
    /\ UNCHANGED notCp

CpNext ==
    \/ \E k \in TableKinds, p \in 1..MaxPage : CpAddTable(k, p)
    \/ CpCallShort
    \/ CpCall

SpecCp == CpInit /\ [][CpNext]_vars

(* Specification SpecCpx: the same call on lists that may also hold a      *)
(* table whose text field is None and a table without a bbox.              *)

CpxInit ==
    /\ cpTables = <<>> /\ cpGiven = <<>> /\ cpOut = <<>> /\ cpPc = "args"
    /\ StrIdle /\ HdrIdle /\ RfIdle /\ BdIdle /\ ExIdle /\ DocIdle /\ RelIdle /\ BtIdle

CpxAddTable(k, p) ==
    /\ cpPc = "args" /\ Len(cpTables) < MaxTables
    /\ cpTables' = Append(cpTables, MakeTable(k, p, CountOnPage(cpTables, p)))
    /\ UNCHANGED <<cpGiven, cpOut, cpPc, notCp>>

CpxNext ==
    \/ \E k \in TableKinds \cup {"dataNoneText", "dataNoBBox"}, p \in 1..MaxPage :
          CpxAddTable(k, p)
    \/ CpCallShort
    \/ CpCall

SpecCpx == CpxInit /\ [][CpxNext]_vars

---------------------------------------------------------------------------
(* Specification SpecRel: calls of _are_tables_related on two tables whose *)
(* data and bbox fields are each absent, degenerate or filled.             *)

Df3 == <<<<S_ab, S_ac, S_x>>, <<S_x, S_y, S_x>>>>

\* the data field: an empty list, one empty row, two columns (two header
\* rows that are not similar), three columns
RelDataChoices == {<<>>, <<<<>>>>, DfA, DfX, Df3}

\* the bbox field: too short, the all-zero default, widths 100, 98, 80, 79
RelBBoxChoices ==
    { <<0, 0>>, <<0, 0, 0, 0>>, <<0, 10, 100, 50>>, <<0, 20, 98, 60>>,
      <<10, 30, 90, 70>>, <<0, 30, 79, 70>> }

RelTables ==
    LET bare == [id |-> <<1, 1>>]
        withData == {bare} \cup {Put(bare, "data", d) : d \in RelDataChoices}
    IN  withData \cup {Put(t, "bbox", b) : t \in withData, b \in RelBBoxChoices}

RelInit ==
    /\ relT1 \in RelTables /\ relT2 \in RelTables
    /\ relOut = FALSE /\ relPc = "args"
    /\ StrIdle /\ HdrIdle /\ CpIdle /\ RfIdle /\ BdIdle /\ ExIdle /\ DocIdle /\ BtIdle

RelCall ==
    /\ relPc = "args"
    /\ relOut' = AreTablesRelated(relT1, relT2)
    /\ relPc' = "returned"
    /\ UNCHANGED <<relT1, relT2, notRel>>

RelNext == RelCall

SpecRel == RelInit /\ [][RelNext]_vars


---------------------------------------------------------------------------
(* _refine_table_structure (pdf.py 1678-1749).  A cell is a str or another *)
(* scalar; the scalars None and 7 are kept as the one-element sequences    *)
(* below, which no str equals (a str is a sequence of single characters).  *)

NoneCell == <<"None">>
SevenCell == <<"int 7">>

\* isinstance(cell, str)
IsStr(cell) == cell # NoneCell /\ cell # SevenCell

\* bool(cell.strip() if isinstance(cell, str) else cell)
CellTruthy(cell) == IF IsStr(cell) THEN Strip(cell) # <<>> ELSE cell = SevenCell

\* any(... for cell in row)
AnyCellTruthy(row) == \E j \in 1..Len(row) : CellTruthy(row[j])

\* s.split() on whitespace, then ' '.join: runs of blanks become one blank
RECURSIVE CollapseSpaces(_)
CollapseSpaces(s) ==
    IF Len(s) < 2 THEN s
    ELSE IF IsSpace(s[1]) /\ IsSpace(s[2]) THEN CollapseSpaces(Tail(s))
    ELSE <<s[1]>> \o CollapseSpaces(Tail(s))

\* ' '.join(cell.strip().split()) for a str, the cell itself otherwise
CleanCell(cell) == IF IsStr(cell) THEN CollapseSpaces(Strip(cell)) ELSE cell

CleanRow(row) == [j \in 1..Len(row) |-> CleanCell(row[j])]

RECURSIVE MinRowLen(_)
MinRowLen(data) ==
    IF Len(data) = 1 THEN Len(data[1])
    ELSE Min2(Len(data[1]), MinRowLen(Tail(data)))

\* list(zip(*data)): as many tuples as the shortest row has cells
ZipRows(data) ==
    IF data = <<>> THEN <<>>
    ELSE [j \in 1..MinRowLen(data) |-> [i \in 1..Len(data) |-> data[i][j]]]

\* step 2: drop the columns that are empty in every row
DropEmptyColumns(data) ==
    IF data = <<>> THEN data
    ELSE LET transposed == SelectSeq(ZipRows(data), AnyCellTruthy)
         IN  IF transposed # <<>> THEN ZipRows(transposed) ELSE data

RefineTableStructure(table) ==
    IF "data" \notin DOMAIN table \/ table.data = <<>> THEN table
    ELSE LET kept == DropEmptyColumns(SelectSeq(table.data, AnyCellTruthy))
             given == Get(table, "headers", <<>>)
             promote == given = <<>> /\ Len(kept) > 0
             headers == IF promote THEN kept[1] ELSE given
             data == IF promote THEN Tail(kept) ELSE kept
             cleaned_headers == CleanRow(headers)
             cleaned_data == [i \in 1..Len(data) |-> CleanRow(data[i])]
         IN  Put(Put(Put(table, "data", cleaned_data), "headers", cleaned_headers),
                 "refined", TRUE)

---------------------------------------------------------------------------
(* Specification SpecRf: _refine_table_structure applied to a table, and   *)
(* applied again to its own result.  The table has no headers field, an    *)
(* empty one or explicit headers; its data is absent, empty, or up to      *)
(* MaxRows rows of RfRows (blank, whitespace, None, ragged rows).          *)

RfRows ==
    { <<<<>>, <<>>, <<>>>>,                              \* ["", "", ""]
      <<<<"a">>, <<"b">>, <<"c">>>>,                     \* ["a", "b", "c"]
      <<<<" ">>, <<>>, NoneCell>>,                       \* [" ", "", None]
      <<<<"x">>, <<>>, <<>>>>,                           \* ["x", "", ""]
      <<<<>>, <<" ", "y", " ", " ", "z", " ">>, <<>>>>,  \* ["", " y  z ", ""]
      <<NoneCell, SevenCell, <<"b">>>>,                  \* [None, 7, "b"]
      <<<<"a">>>>,                                       \* ["a"]
      <<<<>>, <<"b">>>> }                                \* ["", "b"]

RfHeaders == <<<<"h">>, <<" ", "H", " ", " ", "i">>, <<>>>>   \* ["h", " H  i", ""]

RfInit ==
    /\ rfTable \in {[id |-> <<1, 1>>],
                    [id |-> <<1, 1>>, headers |-> <<>>],
                    [id |-> <<1, 1>>, headers |-> RfHeaders]}
    /\ rfOut = NoTable /\ rfOut2 = NoTable /\ rfPc = "args"
    /\ StrIdle /\ HdrIdle /\ CpIdle /\ BdIdle /\ ExIdle /\ DocIdle /\ RelIdle /\ BtIdle

RfEmptyData ==
    /\ rfPc = "args" /\ "data" \notin DOMAIN rfTable
    /\ rfTable' = Put(rfTable, "data", <<>>)
    /\ UNCHANGED <<rfOut, rfOut2, rfPc, notRf>>

RfAddRow(row) ==
    /\ rfPc = "args" /\ Len(Get(rfTable, "data", <<>>)) < MaxRows
    /\ rfTable' = Put(rfTable, "data", Append(Get(rfTable, "data", <<>>), row))
    /\ UNCHANGED <<rfOut, rfOut2, rfPc, notRf>>

RfRefine ==
    /\ rfPc = "args"
    /\ rfOut' = RefineTableStructure(rfTable)
    /\ rfPc' = "once"
    /\ UNCHANGED <<rfTable, rfOut2, notRf>>

RfRefineAgain ==
    /\ rfPc = "once"
    /\ rfOut2' = RefineTableStructure(rfOut)
    /\ rfPc' = "twice"
    /\ UNCHANGED <<rfTable, rfOut, notRf>>

RfNext ==
    \/ RfEmptyData
    \/ \E row \in RfRows : RfAddRow(row)
    \/ RfRefine
    \/ RfRefineAgain

SpecRf == RfInit /\ [][RfNext]_vars

---------------------------------------------------------------------------
(* _detect_table_borders (pdf.py 983-1052).  A page is its drawings        *)
(* (page.get_drawings(): paths with a type and items) and the types of its *)
(* blocks (page.get_text("dict")["blocks"]); coordinates are integers, so  *)
(* length < 10 is dx^2 + dy^2 < 100.                                       *)

MinLineLength == 10
AxisTolerance == 3
MinHLines == 5
MinVLines == 3
MinRectangles == 10
ImageBlockType == 1

ItemDx(item) == item.p1[1] - item.p0[1]
ItemDy(item) == item.p1[2] - item.p0[2]

\* "if length < 10: continue"
TooShort(item) ==
    ItemDx(item) * ItemDx(item) + ItemDy(item) * ItemDy(item)
        < MinLineLength * MinLineLength

\* what one item adds to h_lines
HLineOf(item) ==
    IF item.kind = "l" /\ ~TooShort(item) /\ Abs(ItemDy(item)) < AxisTolerance
    THEN 1 ELSE 0

\* what one item adds to v_lines (the elif branch)
VLineOf(item) ==
    IF item.kind = "l" /\ ~TooShort(item) /\ ~(Abs(ItemDy(item)) < AxisTolerance)
          /\ Abs(ItemDx(item)) < AxisTolerance
    THEN 1 ELSE 0

\* the loop "for item in path['items']" for one path
RECURSIVE CountHItems(_)
CountHItems(items) ==
    IF items = <<>> THEN 0 ELSE HLineOf(Head(items)) + CountHItems(Tail(items))

RECURSIVE CountVItems(_)
CountVItems(items) ==
    IF items = <<>> THEN 0 ELSE VLineOf(Head(items)) + CountVItems(Tail(items))

\* the loop "for path in paths"
RECURSIVE CountHLines(_)
CountHLines(paths) ==
    IF paths = <<>> THEN 0
    ELSE CountHItems(Head(paths).items) + CountHLines(Tail(paths))

RECURSIVE CountVLines(_)
CountVLines(paths) ==
    IF paths = <<>> THEN 0
    ELSE CountVItems(Head(paths).items) + CountVLines(Tail(paths))

RECURSIVE CountRectangles(_)
CountRectangles(paths) ==
    IF paths = <<>> THEN 0
    ELSE (IF Head(paths).type = "rectangle" THEN 1 ELSE 0) + CountRectangles(Tail(paths))

HasImageBlock(blocks) == \E j \in 1..Len(blocks) : blocks[j] = ImageBlockType

DetectTableBordersMutOr(page, raise) ==
    IF raise = "get_drawings" THEN FALSE
    ELSE LET h_lines == CountHLines(page.paths)
             v_lines == CountVLines(page.paths)
             rectangles == CountRectangles(page.paths)
         IN  IF (h_lines >= MinHLines \/ v_lines >= MinVLines)
                    \/ rectangles >= MinRectangles
             THEN TRUE
             ELSE IF raise = "get_text" THEN FALSE
             ELSE HasImageBlock(page.blocks)

\* raise: the page call that raises, caught by the except clause
DetectTableBorders(page, raise) ==
    IF raise = "get_drawings" THEN FALSE
    ELSE LET h_lines == CountHLines(page.paths)
             v_lines == CountVLines(page.paths)
             rectangles == CountRectangles(page.paths)
         IN  IF (h_lines >= MinHLines /\ v_lines >= MinVLines)
                    \/ rectangles >= MinRectangles
             THEN TRUE
             ELSE IF raise = "get_text" THEN FALSE
             ELSE HasImageBlock(page.blocks)

---------------------------------------------------------------------------
(* Specification SpecBd: _detect_table_borders on a page of up to MaxPaths *)
(* drawing paths.  The counters do not depend on the order of the paths,   *)
(* so the paths are laid down in the order of PathKinds.                   *)

Line(x0, y0, x1, y1) == [kind |-> "l", p0 |-> <<x0, y0>>, p1 |-> <<x1, y1>>]

PathKinds ==
    << [type |-> "s", items |-> <<Line(0, 0, 10, 2)>>],        \* horizontal, length just over 10
       [type |-> "s", items |-> <<Line(5, 0, 5, 10)>>],        \* vertical, length 10
       [type |-> "s", items |-> <<Line(0, 0, 9, 0)>>],         \* too short
       [type |-> "s", items |-> <<Line(0, 0, 10, 3)>>],        \* slanted: neither
       [type |-> "fs", items |-> <<Line(0, 0, 40, 0), Line(0, 0, 0, 40),
                                   [kind |-> "re", p0 |-> <<0, 0>>, p1 |-> <<40, 40>>]>>],
       [type |-> "rectangle", items |-> <<[kind |-> "re", p0 |-> <<0, 0>>, p1 |-> <<40, 40>>]>>] >>

KindIndex(path) == CHOOSE k \in 1..Len(PathKinds) : PathKinds[k] = path

BlockLists == {<<>>, <<0, 0>>, <<0, ImageBlockType>>}

BdInit ==
    /\ bdPage \in {[paths |-> <<>>, blocks |-> b] : b \in BlockLists}
    /\ bdRaise = "none" /\ bdOut = FALSE /\ bdPc = "page"
    /\ StrIdle /\ HdrIdle /\ CpIdle /\ RfIdle /\ ExIdle /\ DocIdle /\ RelIdle /\ BtIdle

BdAddPath(k) ==
    /\ bdPc = "page" /\ Len(bdPage.paths) < MaxPaths
    /\ bdPage.paths # <<>> => KindIndex(bdPage.paths[Len(bdPage.paths)]) <= k
    /\ bdPage' = [bdPage EXCEPT !.paths = Append(@, PathKinds[k])]
    /\ UNCHANGED <<bdRaise, bdOut, bdPc, notBd>>

BdDetect(raise) ==
    /\ bdPc = "page"
    /\ bdRaise' = raise
    /\ bdOut' = DetectTableBorders(bdPage, raise)
    /\ bdPc' = "returned"
    /\ UNCHANGED <<bdPage, notBd>>

BdNext ==
    \/ \E k \in 1..Len(PathKinds) : BdAddPath(k)
    \/ \E raise \in {"none", "get_drawings", "get_text"} : BdDetect(raise)

SpecBd == BdInit /\ [][BdNext]_vars

---------------------------------------------------------------------------
(* The three backend wrappers.  raw is what the library call does: it      *)
(* raises (an import error included), or it returns its tables.            *)

DefaultMinConfidence == 80

\* _extract_with_camelot: the loop over the tables found, i 1-based
RECURSIVE CamelotLoop(_, _, _, _, _, _)
CamelotLoop(tables, i, result, page_number, flavor, cfg) ==
    IF i > Len(tables) THEN result
    ELSE IF tables[i].accuracy < Get(cfg, "min_confidence", DefaultMinConfidence)
    THEN CamelotLoop(tables, i + 1, result, page_number, flavor, cfg)
    ELSE CamelotLoop(tables, i + 1,
             Append(result,
                    CamelotTableDict(page_number, i - 1, flavor, tables[i].accuracy,
                                     tables[i].bbox, tables[i].df,
                                     Get(cfg, "header_extraction", TRUE))),
             page_number, flavor, cfg)

\* _extract_with_camelot (pdf.py 1217-1298)
ExtractWithCamelot(page_number, flavor, raw, cfg) ==
    IF raw.raises THEN <<>>
    ELSE IF Len(raw.tables) = 0 THEN <<>>
    ELSE CamelotLoop(raw.tables, 1, <<>>, page_number, flavor, cfg)

\* _extract_with_tabula: the loop over the frames, i 1-based
RECURSIVE TabulaLoop(_, _, _, _, _, _)
TabulaLoop(frames, i, result, page_number, lattice, cfg) ==
    IF i > Len(frames) THEN result
    ELSE IF frames[i] = <<>>
    THEN TabulaLoop(frames, i + 1, result, page_number, lattice, cfg)
    ELSE TabulaLoop(frames, i + 1,
             Append(result,
                    TabulaTableDict(page_number, i - 1, lattice, frames[i],
                                    Get(cfg, "header_extraction", TRUE))),
             page_number, lattice, cfg)

\* _extract_with_tabula (pdf.py 1300-1362)
ExtractWithTabula(page_number, lattice, raw, cfg) ==
    IF raw.raises THEN <<>>
    ELSE TabulaLoop(raw.tables, 1, <<>>, page_number, lattice, cfg)

\* '' if cell is None else str(cell).strip()
PlumberCleanRow(row) ==
    [j \in 1..Len(row) |-> IF row[j] = NoneCell THEN <<>> ELSE Strip(row[j])]

\* _extract_with_pdfplumber: the loop over the tables, i 1-based
RECURSIVE PlumberLoop(_, _, _, _, _)
PlumberLoop(plumber_tables, i, result, page_number, cfg) ==
    IF i > Len(plumber_tables) THEN result
    ELSE IF plumber_tables[i] = <<>>
    THEN PlumberLoop(plumber_tables, i + 1, result, page_number, cfg)
    ELSE PlumberLoop(plumber_tables, i + 1,
             Append(result,
                    PlumberTableDict(page_number, i - 1,
                        [r \in 1..Len(plumber_tables[i]) |->
                            PlumberCleanRow(plumber_tables[i][r])],
                        Get(cfg, "header_extraction", TRUE))),
             page_number, cfg)

\* _extract_with_pdfplumber (pdf.py 1364-1445)
ExtractWithPdfplumber(page_number, raw, cfg) ==
    IF raw.raises THEN <<>>
    ELSE PlumberLoop(raw.tables, 1, <<>>, page_number, cfg)

---------------------------------------------------------------------------
(* _extract_tables_unified (pdf.py 1054-1149) *)

Backends == {"camelot", "tabula", "pdfplumber"}

\* a resolution that looks at table_types whatever the configured method
ResolveMethodMutAlwaysAuto(cfg, has_borders) ==
    LET table_types == Get(cfg, "table_types", [complex |-> "camelot"])
    IN  IF has_borders THEN Get(table_types, "bordered", "camelot")
                       ELSE Get(table_types, "borderless", "tabula")

\* the resolution of method (pdf.py 1069-1078)
ResolveMethod(cfg, has_borders) ==
    LET extraction_method == Get(cfg, "method", "auto")
        table_types == Get(cfg, "table_types", [complex |-> "camelot"])
    IN  IF extraction_method = "auto"
        THEN (IF has_borders THEN Get(table_types, "bordered", "camelot")
                             ELSE Get(table_types, "borderless", "tabula"))
        ELSE extraction_method

\* one backend call with the mode has_borders selects
CallBackend(backend, page_number, has_borders, raw, cfg) ==
    CASE backend = "camelot" ->
            ExtractWithCamelot(page_number, IF has_borders THEN "lattice" ELSE "stream",
                               raw, cfg)
      [] backend = "tabula" ->
            ExtractWithTabula(page_number, has_borders, raw, cfg)
      [] backend = "pdfplumber" ->
            ExtractWithPdfplumber(page_number, raw, cfg)

\* "except Exception as e" around each backend call: the exception classes
\* it takes
CatchesExceptionMutImportOnly(kind) == kind = "ImportError"

CatchesException(kind) == kind \in {"ImportError", "RuntimeError"}

\* "if not tables and self.config...get('fallback_to_heuristic', True)"
FallbackWanted(tables, cfg) ==
    tables = <<>> /\ Get(cfg, "fallback_to_heuristic", TRUE)

\* the guards of the three fallback attempts (pdf.py 1112, 1122, 1132)
\* fallback attempts that do not look at which backend was the primary one
TryFallbackMutNoMethodGuard(backend, tables, method) ==
    IF backend = "camelot" THEN TRUE ELSE tables = <<>>

TryFallbackMutAlways(backend, tables, method) ==
    method # backend

TryFallback(backend, tables, method) ==
    IF backend = "camelot" THEN method # "camelot"
    ELSE tables = <<>> /\ method # backend

\* the loop "for table in tables" that attaches the context
WithContext(tables, context) ==
    [i \in 1..Len(tables) |->
        IF "bbox" \in DOMAIN tables[i]
        THEN Put(Put(tables[i], "context", context), "region", tables[i].bbox)
        ELSE tables[i]]

---------------------------------------------------------------------------
(* Specification SpecEx: one call of _extract_tables_unified, one backend  *)
(* call per step.                                                          *)

OneRowDf == <<<<S_x, S_y>>>>

RawCamelot ==
    { [escapes |-> "ImportError", raises |-> TRUE, tables |-> <<>>],
      [escapes |-> "RuntimeError", raises |-> TRUE, tables |-> <<>>],
      [escapes |-> "none", raises |-> TRUE, tables |-> <<>>],
      [escapes |-> "none", raises |-> FALSE, tables |-> <<>>],
      [escapes |-> "none", raises |-> FALSE,
       tables |-> <<[accuracy |-> 95, bbox |-> <<0, 10, 100, 50>>, df |-> DfA]>>],
      [escapes |-> "none", raises |-> FALSE,
       tables |-> <<[accuracy |-> 50, bbox |-> <<0, 10, 100, 50>>, df |-> DfA]>>],
      [escapes |-> "none", raises |-> FALSE,
       tables |-> <<[accuracy |-> 79, bbox |-> <<0, 10, 100, 50>>, df |-> DfA],
                    [accuracy |-> 80, bbox |-> <<0, 60, 98, 90>>, df |-> OneRowDf]>>] }

RawTabula ==
    { [escapes |-> "ImportError", raises |-> TRUE, tables |-> <<>>],
      [escapes |-> "RuntimeError", raises |-> TRUE, tables |-> <<>>],
      [escapes |-> "none", raises |-> TRUE, tables |-> <<>>],
      [escapes |-> "none", raises |-> FALSE, tables |-> <<>>],
      [escapes |-> "none", raises |-> FALSE, tables |-> <<<<>>>>],
      [escapes |-> "none", raises |-> FALSE, tables |-> <<<<>>, DfB>>] }

RawPdfplumber ==
    { [escapes |-> "ImportError", raises |-> TRUE, tables |-> <<>>],
      [escapes |-> "RuntimeError", raises |-> TRUE, tables |-> <<>>],
      [escapes |-> "none", raises |-> TRUE, tables |-> <<>>],
      [escapes |-> "none", raises |-> FALSE, tables |-> <<>>],
      [escapes |-> "none", raises |-> FALSE,
       tables |-> <<<<>>, <<<<NoneCell, <<" ", "a">>>>, <<S_x, S_y>>>>>>],
      [escapes |-> "none", raises |-> FALSE, tables |-> <<<<<<S_ab, NoneCell>>>>>>] }

RawOf(backend) ==
    CASE backend = "camelot" -> RawCamelot
      [] backend = "tabula" -> RawTabula
      [] backend = "pdfplumber" -> RawPdfplumber

ExConfigs ==
    {[strategy |-> "adaptive"],
     [strategy |-> "adaptive", method |-> "auto",
      table_types |-> [bordered |-> "pdfplumber"]]}
    \cup {[strategy |-> "adaptive", method |-> m, fallback_to_heuristic |-> f,
           header_extraction |-> h] :
             m \in Backends \cup {"ocr"}, f \in BOOLEAN, h \in BOOLEAN}
    \cup {[strategy |-> "adaptive", method |-> "auto",
           table_types |-> [bordered |-> "pdfplumber", borderless |-> "camelot"],
           fallback_to_heuristic |-> f, header_extraction |-> h] :
             f \in BOOLEAN, h \in BOOLEAN}

ExInit ==
    /\ exCfg \in ExConfigs
    /\ exIn \in {[page_number |-> p, has_borders |-> b, context |-> c] :
                    p \in 1..MaxPage, b \in BOOLEAN, c \in {"", "above\nbelow"}}
    /\ exMethod = "" /\ exTables = <<>> /\ exCalls = <<>> /\ exPc = "start"
    /\ StrIdle /\ HdrIdle /\ CpIdle /\ RfIdle /\ BdIdle /\ DocIdle /\ RelIdle /\ BtIdle

ExResolve ==
    /\ exPc = "start"
    /\ exMethod' = ResolveMethod(exCfg, exIn.has_borders)
    /\ exPc' = "primary"
    /\ UNCHANGED <<exCfg, exIn, exTables, exCalls, notEx>>

\* the call of backend b at this step inside its try block: what raw makes
\* the wrapper return, or the exception that leaves the wrapper
ExInvoke(b, raw) ==
    LET got == CallBackend(b, exIn.page_number, exIn.has_borders, raw, exCfg)
        tables == IF raw.escapes # "none" THEN exTables ELSE got
    IN  /\ exTables' = tables
        /\ exCalls' = Append(exCalls,
              [backend |-> b,
               raised |-> IF raw.escapes # "none" THEN raw.escapes
                          ELSE IF raw.raises THEN "inside" ELSE "none",
               result |-> IF raw.escapes # "none" THEN <<>> ELSE got])

\* the last backend call raised and no except clause of the caller took it
Propagated(calls) ==
    /\ calls # <<>>
    /\ calls[Len(calls)].raised \notin {"none", "inside"}
    /\ ~CatchesException(calls[Len(calls)].raised)

\* after the primary attempt and after each fallback attempt
AfterPrimary(tables) ==
    IF FallbackWanted(tables, exCfg) THEN "fallback_camelot" ELSE "context"

ExPrimary ==
    /\ exPc = "primary" /\ exMethod \in Backends
    /\ \E raw \in RawOf(exMethod) : ExInvoke(exMethod, raw)
    /\ exPc' = IF Propagated(exCalls') THEN "raised" ELSE AfterPrimary(exTables')
    /\ UNCHANGED <<exCfg, exIn, exMethod, notEx>>

\* a method that names no backend: no branch of the if/elif chain is taken
ExPrimaryNone ==
    /\ exPc = "primary" /\ exMethod \notin Backends
    /\ exPc' = AfterPrimary(exTables)
    /\ UNCHANGED <<exCfg, exIn, exMethod, exTables, exCalls, notEx>>

\* one guarded fallback attempt
ExAttempt(b) ==
    IF TryFallback(b, exTables, exMethod)
    THEN \E raw \in RawOf(b) : ExInvoke(b, raw)
    ELSE UNCHANGED <<exTables, exCalls>>

ExFallbackCamelot ==
    /\ exPc = "fallback_camelot"
    /\ ExAttempt("camelot")
    /\ exPc' = IF Propagated(exCalls') THEN "raised" ELSE "fallback_tabula"
    /\ UNCHANGED <<exCfg, exIn, exMethod, notEx>>

ExFallbackTabula ==
    /\ exPc = "fallback_tabula"
    /\ ExAttempt("tabula")
    /\ exPc' = IF Propagated(exCalls') THEN "raised" ELSE "fallback_pdfplumber"
    /\ UNCHANGED <<exCfg, exIn, exMethod, notEx>>

ExFallbackPdfplumber ==
    /\ exPc = "fallback_pdfplumber"
    /\ ExAttempt("pdfplumber")
    /\ exPc' = IF Propagated(exCalls') THEN "raised" ELSE "context"
    /\ UNCHANGED <<exCfg, exIn, exMethod, notEx>>

ExContext ==
    /\ exPc = "context"
    /\ exTables' = WithContext(exTables, exIn.context)
    /\ exPc' = "returned"
    /\ UNCHANGED <<exCfg, exIn, exMethod, exCalls, notEx>>

ExNext ==
    \/ ExResolve
    \/ ExPrimary
    \/ ExPrimaryNone
    \/ ExFallbackCamelot
    \/ ExFallbackTabula
    \/ ExFallbackPdfplumber
    \/ ExContext

SpecEx == ExInit /\ [][ExNext]_vars

---------------------------------------------------------------------------
(* extract_tables (pdf.py 879-981).  What the body of the try block does   *)
(* on a page is an input: the exception it raises, or the kinds of the     *)
(* tables _extract_tables_unified returns for it.                          *)

\* "any([HAS_CAMELOT, HAS_TABULA, HAS_PDFPLUMBER])"
AnyLibraryAvailableMutTrue(libs) == TRUE

AnyLibraryAvailable(libs) == libs.camelot \/ libs.tabula \/ libs.pdfplumber

\* the library a table of kind k comes from
KindLibrary(k) == IF k = "tabula" THEN "tabula" ELSE "camelot"

\* the text _get_table_context returns for a table region
PageContext == "above\nbelow"

\* page_tables as _extract_tables_unified returns them on page page_number
PageTables(kinds, page_number) ==
    WithContext([i \in 1..Len(kinds) |-> MakeTable(kinds[i], page_number, i - 1)],
                PageContext)

\* step 3: every table goes through _refine_table_structure
RefinePageTables(page_tables, table_structure_recognizer) ==
    IF table_structure_recognizer /\ page_tables # <<>>
    THEN [i \in 1..Len(page_tables) |-> RefineTableStructure(page_tables[i])]
    ELSE page_tables

\* step 4: the page number, and the context again where a region is known
AnnotatePageTables(page_tables, page_number) ==
    [i \in 1..Len(page_tables) |->
        LET paged == Put(page_tables[i], "page", page_number)
        IN  IF "region" \in DOMAIN paged THEN Put(paged, "context", PageContext)
            ELSE paged]

\* the try block of one iteration, when nothing raises
ProcessPage(kinds, page_number, table_structure_recognizer) ==
    AnnotatePageTables(
        RefinePageTables(PageTables(kinds, page_number), table_structure_recognizer),
        page_number)

\* step 5
CrossPageStep(all_tables) ==
    IF Len(all_tables) > 1 THEN HandleCrossPageTables(all_tables) ELSE all_tables

---------------------------------------------------------------------------
(* Specification SpecDoc: one call of extract_tables, one page per step.   *)

PageKinds ==
    { <<>>, <<"camelotA">>, <<"camelotB">>, <<"tabula">>,
      <<"camelotA", "camelotB">>, <<"camelotB", "camelotA">> }

PageOutcomes ==
    {[raises |-> "none", kinds |-> k] : k \in PageKinds}
    \cup {[raises |-> e, kinds |-> <<>>] : e \in {"ImportError", "RuntimeError"}}

DocInit ==
    /\ docLibs \in [camelot : BOOLEAN, tabula : BOOLEAN, pdfplumber : BOOLEAN]
    /\ docRecognizer \in BOOLEAN
    /\ docPages = <<>> /\ docIdx = 0 /\ docAll = <<>> /\ docOut = <<>>
    /\ docPc = "args"
    /\ StrIdle /\ HdrIdle /\ CpIdle /\ RfIdle /\ BdIdle /\ ExIdle /\ RelIdle /\ BtIdle

\* a page yields tables only of the libraries that are installed
DocAddPage(o) ==
    /\ docPc = "args" /\ Len(docPages) < MaxPage
    /\ \A i \in 1..Len(o.kinds) : docLibs[KindLibrary(o.kinds[i])]
    /\ docPages' = Append(docPages, o)
    /\ UNCHANGED <<docLibs, docRecognizer, docIdx, docAll, docOut, docPc, notDoc>>

\* "if not any([HAS_CAMELOT, HAS_TABULA, HAS_PDFPLUMBER]): return []"
DocNoLibraries ==
    /\ docPc = "args" /\ ~AnyLibraryAvailable(docLibs)
    /\ docOut' = <<>>
    /\ docPc' = "returned"
    /\ UNCHANGED <<docLibs, docRecognizer, docPages, docIdx, docAll, notDoc>>

DocStart ==
    /\ docPc = "args" /\ AnyLibraryAvailable(docLibs)
    /\ docPc' = "pages"
    /\ UNCHANGED <<docLibs, docRecognizer, docPages, docIdx, docAll, docOut, notDoc>>

\* one iteration of "for page_num, page in enumerate(doc)"
DocPage ==
    /\ docPc = "pages" /\ docIdx < Len(docPages)
    /\ LET page_number == docIdx + 1
           o == docPages[page_number]
       IN  IF o.raises = "none"
           THEN /\ docAll' = docAll
                       \o ProcessPage(o.kinds, page_number, docRecognizer)
                /\ docPc' = "pages"
           ELSE /\ docAll' = docAll
                /\ docPc' = IF CatchesException(o.raises) THEN "pages" ELSE "raised"
    /\ docIdx' = docIdx + 1
    /\ UNCHANGED <<docLibs, docRecognizer, docPages, docOut, notDoc>>

DocFinish ==
    /\ docPc = "pages" /\ docIdx = Len(docPages)
    /\ docAll' = CrossPageStep(docAll)
    /\ docOut' = CrossPageStep(docAll)
    /\ docPc' = "returned"
    /\ UNCHANGED <<docLibs, docRecognizer, docPages, docIdx, notDoc>>

DocNext ==
    \/ \E o \in PageOutcomes : DocAddPage(o)
    \/ DocNoLibraries
    \/ DocStart
    \/ DocPage
    \/ DocFinish

SpecDoc == DocInit /\ [][DocNext]_vars

---------------------------------------------------------------------------
(* Request batching (pdf.py 207-291).  The coroutines of one PDFExtractor  *)
(* run on one event loop: a coroutine runs alone from one await that       *)
(* suspends it to the next.  _process_request_batch suspends while a       *)
(* request is being made (the sleep that spaces the requests, the call of  *)
(* func, the sleep before a retry), so one step of a task goes from an     *)
(* attempt of its current request coming back to the next attempt being    *)
(* under way, or to the return of the coroutine that was called.  Awaiting *)
(* a coroutine that returns does not suspend: the statements after         *)
(* "results = await self._process_request_batch(...)" run in the same step *)
(* as the end of the loop.  A request is named by the image it carries;    *)
(* the result of a request is named by the image it was computed from.     *)

ResultOf(request) == [image |-> request]
MaxRequests == IF MaxTasks > MaxBatchLen THEN MaxTasks ELSE MaxBatchLen
NoneExecuted == [request \in 1..MaxRequests |-> 0]
NoneResult == [image |-> 0]

\* a coroutine that has been called; list, idx, retry_count and results
\* are the locals batch, the position of "for request in batch",
\* retry_count and results of its _process_request_batch
NewTask(kind, image) ==
    [kind |-> kind, image |-> image, pc |-> "done", list |-> 0, idx |-> 0,
     retry_count |-> 0, results |-> <<>>, queued |-> FALSE, ret |-> NoneResult]

\* _process_request_batch(batch) up to the first attempt of the first
\* request; batch is the list object l, not a copy of it
EnterBatch(task, l) ==
    [task EXCEPT !.pc = "request", !.list = l, !.idx = 1, !.retry_count = 0,
                 !.results = <<>>]

\* _process_request_batch has returned results to task t: _add_to_batch and
\* _flush_batch rebind current_batch to a new list and return results, and
\* _process_image_with_gemini returns results[0]
BtReturn(t, results) ==
    LET task == btTasks[t]
        rebinds == task.kind \in {"image", "flush"}
        index_error == task.kind = "image" /\ results = <<>>
    IN  /\ btTasks' = [btTasks EXCEPT ![t] =
              [task EXCEPT !.pc = IF index_error THEN "raised" ELSE "done",
                           !.results = results,
                           !.ret = IF task.kind = "image" /\ results # <<>>
                                   THEN results[1] ELSE NoneResult]]
        /\ btLists' = IF rebinds THEN Append(btLists, <<>>) ELSE btLists
        /\ btCurrent' = IF rebinds THEN Len(btLists) + 1 ELSE btCurrent

\* "for request in batch" goes to the next item of the list object, as the
\* list is now, or ends
BtNextRequest(t, results) ==
    LET task == btTasks[t]
    IN  IF task.idx < Len(btLists[task.list])
        THEN /\ btTasks' = [btTasks EXCEPT ![t] =
                   [task EXCEPT !.idx = task.idx + 1, !.retry_count = 0,
                                !.results = results]]
             /\ UNCHANGED <<btLists, btCurrent>>
        ELSE BtReturn(t, results)

\* the attempt of the current request of task t returns a result
BtRequestOk(t) ==
    /\ t \in 1..Len(btTasks) /\ btTasks[t].pc = "request"
    /\ LET task == btTasks[t]
           request == btLists[task.list][task.idx]
       IN  /\ btExecuted' = [btExecuted EXCEPT ![request] = @ + 1]
           /\ BtNextRequest(t, Append(task.results, ResultOf(request)))
    /\ UNCHANGED <<btCfg, notBt>>

\* the except clause of the retry loop of task t.  rate_limit is
\* '"429" in str(e) or "rate limit" in str(e).lower()', switched is what
\* _switch_to_fallback_api() returns
BtExcept(t, rate_limit, switched) ==
    LET task == btTasks[t]
        retry_count == task.retry_count + 1
        again == [btTasks EXCEPT ![t] = [task EXCEPT !.retry_count = retry_count]]
    IN  IF rate_limit /\ switched
        THEN \* continue: back to "while retry_count < max_retries"
             IF retry_count < btCfg.max_retries
             THEN btTasks' = again /\ UNCHANGED <<btLists, btCurrent>>
             ELSE BtNextRequest(t, task.results)
        ELSE IF retry_count = btCfg.max_retries
             THEN /\ btTasks' = [btTasks EXCEPT ![t] = [task EXCEPT !.pc = "raised"]]
                  /\ UNCHANGED <<btLists, btCurrent>>
             ELSE btTasks' = again /\ UNCHANGED <<btLists, btCurrent>>

\* the attempt raises an error that is not a rate limit
BtRequestError(t) ==
    /\ t \in 1..Len(btTasks) /\ btTasks[t].pc = "request"
    /\ BtExcept(t, FALSE, FALSE)
    /\ UNCHANGED <<btCfg, btExecuted, notBt>>

\* the attempt raises a rate-limit error and the fallback API is taken
BtRateLimitSwitched(t) ==
    /\ t \in 1..Len(btTasks) /\ btTasks[t].pc = "request"
    /\ BtExcept(t, TRUE, TRUE)
    /\ UNCHANGED <<btCfg, btExecuted, notBt>>

\* the attempt raises a rate-limit error and there is no fallback API
BtRateLimitNotSwitched(t) ==
    /\ t \in 1..Len(btTasks) /\ btTasks[t].pc = "request"
    /\ BtExcept(t, TRUE, FALSE)
    /\ UNCHANGED <<btCfg, btExecuted, notBt>>

\* a call of _process_image_with_gemini(image_bytes), up to its first await
\* that suspends or to its return
BtCallImage ==
    /\ Len(btTasks) < MaxTasks
    /\ LET image == Len(btTasks) + 1
           task == NewTask("image", image)
           batch == Append(btLists[btCurrent], image)
       IN  IF ~btCfg.enabled
           THEN /\ btTasks' = Append(btTasks, [task EXCEPT !.pc = "single"])
                /\ UNCHANGED btLists
           ELSE /\ btLists' = [btLists EXCEPT ![btCurrent] = batch]
                /\ btTasks' = Append(btTasks,
                      IF Len(batch) >= btCfg.batch_size
                      THEN EnterBatch(task, btCurrent)
                      ELSE [task EXCEPT !.queued = TRUE])
    /\ UNCHANGED <<btCfg, btCurrent, btExecuted, notBt>>

\* batching disabled: _gemini_process_single_image returns
BtSingleOk(t) ==
    /\ t \in 1..Len(btTasks) /\ btTasks[t].pc = "single"
    /\ btTasks' = [btTasks EXCEPT ![t] =
          [@ EXCEPT !.pc = "done", !.ret = ResultOf(btTasks[t].image)]]
    /\ btExecuted' = [btExecuted EXCEPT ![btTasks[t].image] = @ + 1]
    /\ UNCHANGED <<btCfg, btLists, btCurrent, notBt>>

\* a call of _flush_batch()
BtCallFlush ==
    /\ Len(btTasks) < MaxTasks
    /\ LET task == NewTask("flush", 0)
       IN  btTasks' = Append(btTasks,
              IF btLists[btCurrent] # <<>> THEN EnterBatch(task, btCurrent)
              ELSE task)
    /\ UNCHANGED <<btCfg, btLists, btCurrent, btExecuted, notBt>>

\* a direct call of _process_request_batch(batch)
BtCallBatch ==
    /\ btTasks = <<>>
    /\ LET task == NewTask("batch", 0)
       IN  btTasks' = <<IF btLists[1] # <<>> THEN EnterBatch(task, 1) ELSE task>>
    /\ UNCHANGED <<btCfg, btLists, btCurrent, btExecuted, notBt>>

---------------------------------------------------------------------------
(* Specification SpecPb: one call of _process_request_batch on a batch of  *)
(* 0..MaxBatchLen requests; every attempt of a request succeeds, raises    *)
(* an ordinary error, or raises a rate-limit error with                    *)
(* _switch_to_fallback_api succeeding or failing.                          *)

PbInit ==
    /\ btCfg \in [enabled : {TRUE}, batch_size : {MaxBatchSize},
                  max_retries : 1..MaxRetries]
    /\ btLists \in {<<[i \in 1..n |-> i]>> : n \in 0..MaxBatchLen}
    /\ btCurrent = 1 /\ btTasks = <<>> /\ btExecuted = NoneExecuted
    /\ StrIdle /\ HdrIdle /\ CpIdle /\ RfIdle /\ BdIdle /\ ExIdle /\ DocIdle /\ RelIdle

PbNext ==
    \/ BtCallBatch
    \/ BtRequestOk(1)
    \/ BtRequestError(1)
    \/ BtRateLimitSwitched(1)
    \/ BtRateLimitNotSwitched(1)

SpecPb == PbInit /\ [][PbNext]_vars

---------------------------------------------------------------------------
(* Specification SpecBatch: up to MaxTasks coroutines on one PDFExtractor, *)
(* each a call of _process_image_with_gemini or of _flush_batch, called in *)
(* any order and at any time and interleaved at their awaits.  Every       *)
(* request succeeds at its first attempt (the failure patterns are those   *)
(* of SpecPb), so what happens is due to the interleaving alone.           *)

BatchInit ==
    /\ btCfg \in [enabled : BOOLEAN, batch_size : 1..MaxBatchSize,
                  max_retries : {MaxRetries}]
    /\ btLists = <<<<>>>> /\ btCurrent = 1 /\ btTasks = <<>> /\ btExecuted = NoneExecuted
    /\ StrIdle /\ HdrIdle /\ CpIdle /\ RfIdle /\ BdIdle /\ ExIdle /\ DocIdle /\ RelIdle

BatchNext ==
    \/ BtCallImage
    \/ BtCallFlush
    \/ \E t \in 1..MaxTasks : BtRequestOk(t)
    \/ \E t \in 1..MaxTasks : BtSingleOk(t)

SpecBatch == BatchInit /\ [][BatchNext]_vars

---------------------------------------------------------------------------
(* Vocabulary of the cross-page claims *)

CpReturned == cpPc = "returned"
CpElems(seq) == {seq[j] : j \in 1..Len(seq)}
IsMergedTable(t) == "page_range" \in DOMAIN t

\* the header row of a table: the first row of its data field when it
\* carries one (what _are_tables_related and _merge_tables read), otherwise
\* its headers field
HeaderRow(t) ==
    IF "data" \in DOMAIN t
    THEN (IF t.data = <<>> THEN <<>> ELSE t.data[1])
    ELSE Get(t, "headers", <<>>)

NonBlankList(h) == h # <<>> /\ \A j \in 1..Len(h) : Strip(h[j]) # <<>>

BBoxWidth(t) == t.bbox[3] - t.bbox[1]

WidthsWithin20Percent(t1, t2) ==
    /\ "bbox" \in DOMAIN t1 /\ "bbox" \in DOMAIN t2
    /\ 10 * Abs(BBoxWidth(t1) - BBoxWidth(t2))
           <= 2 * Max2(BBoxWidth(t1), BBoxWidth(t2))

\* the call was made on exactly one table per page on pages p, p+1, p+2
ThreeConsecutive(p) ==
    /\ Len(cpGiven) = 3
    /\ \A q \in {p, p + 1, p + 2} : CountOnPage(cpGiven, q) = 1

TableOnPage(p) == CHOOSE t \in CpElems(cpGiven) : t.page = p

PairwiseRelated(p) ==
    /\ AreTablesRelated(TableOnPage(p), TableOnPage(p + 1))
    /\ AreTablesRelated(TableOnPage(p + 1), TableOnPage(p + 2))
    /\ AreTablesRelated(TableOnPage(p), TableOnPage(p + 2))

(* C1: one pass over three pairwise-related tables on pages p, p+1, p+2    *)
(* (one per page) returns the merge of the first two followed by the third *)
(* unchanged; and every table of any output is an input table or the merge *)
(* of two input tables, never of more.                                     *)
C1_AdjacentOnly ==
    CpReturned =>
        /\ \A p \in 1..(MaxPage - 2) :
              (ThreeConsecutive(p) /\ PairwiseRelated(p)) =>
                  cpOut = <<MergeTables(TableOnPage(p), TableOnPage(p + 1)),
                            TableOnPage(p + 2)>>
        /\ \A o \in CpElems(cpOut) :
              \/ o \in CpElems(cpGiven)
              \/ \E a, b \in CpElems(cpGiven) :
                    ~IsMergedTable(a) /\ ~IsMergedTable(b) /\ o = MergeTables(a, b)

C1_Witness ==
    /\ CpReturned
    /\ ThreeConsecutive(1) /\ PairwiseRelated(1)
    /\ Len(cpOut) = 2
    /\ IsMergedTable(cpOut[1]) /\ cpOut[1].page_range = <<1, 2>>
    /\ ~IsMergedTable(cpOut[2]) /\ cpOut[2].page = 3

\* the call was made on two tables, t1 on page p and t2 on page p+1
TwoConsecutive(t1, t2) ==
    /\ Len(cpGiven) = 2
    /\ CpElems(cpGiven) = {t1, t2}
    /\ t2.page = t1.page + 1

(* C2: two tables on consecutive pages p, p+1 with identical non-blank     *)
(* header rows and bbox widths within 20% of the larger come back as one   *)
(* table with page_range [p, p+1], is_cross_page true and the first        *)
(* table's extraction_method followed by "_cross_page".                    *)
C2_MergedPair ==
    CpReturned =>
        \A t1, t2 \in CpElems(cpGiven) :
            ( /\ TwoConsecutive(t1, t2)
              /\ HeaderRow(t1) = HeaderRow(t2) /\ NonBlankList(HeaderRow(t1))
              /\ WidthsWithin20Percent(t1, t2) )
            => /\ Len(cpOut) = 1
               /\ IsMergedTable(cpOut[1])
               /\ cpOut[1].page_range = <<t1.page, t1.page + 1>>
               /\ cpOut[1].is_cross_page = TRUE
               /\ cpOut[1].extraction_method
                      = Get(t1, "extraction_method", "unknown") \o "_cross_page"

C2_Witness ==
    /\ CpReturned
    /\ Len(cpGiven) = 2
    /\ cpGiven[1].page = 3 /\ cpGiven[2].page = 2
    /\ BBoxWidth(cpGiven[2]) = 100 /\ BBoxWidth(cpGiven[1]) = 98
    /\ cpGiven[1].headers = cpGiven[2].headers
    /\ Len(cpOut) = 1
    /\ cpOut[1].page_range = <<2, 3>>
    /\ cpOut[1].extraction_method = "camelot_lattice_cross_page"

\* a table in the shape the backends emit
BackendShaped(t) == "rows" \in DOMAIN t /\ "headers" \in DOMAIN t /\ "data" \notin DOMAIN t

(* C3: the merged table keeps the first table's bbox and headers and its   *)
(* rows are the first table's rows followed by the second's (the second's  *)
(* first row dropped at most), for tables in the shape the backends emit.  *)
C3_RowsConcatenated ==
    CpReturned =>
        \A t1, t2 \in CpElems(cpGiven) :
            ( /\ TwoConsecutive(t1, t2)
              /\ BackendShaped(t1) /\ BackendShaped(t2)
              /\ Len(cpOut) = 1 /\ IsMergedTable(cpOut[1]) )
            => /\ cpOut[1].bbox = t1.bbox
               /\ cpOut[1].headers = t1.headers
               /\ \/ cpOut[1].rows = t1.rows \o t2.rows
                  \/ t2.rows # <<>> /\ cpOut[1].rows = t1.rows \o Tail(t2.rows)

---------------------------------------------------------------------------
(* Vocabulary of the refinement claims *)

RfHasData(t) == "data" \in DOMAIN t /\ t.data # <<>>
RfNoExplicitHeaders(t) == Get(t, "headers", <<>>) = <<>>
RfCellsOf(row) == {row[j] : j \in 1..Len(row)}

(* C4: _refine_table_structure is idempotent: refine(refine(t)) equals     *)
(* refine(t) in headers, data and flags, for every table t.                *)
C4_Idempotent ==
    rfPc = "twice" => rfOut2 = rfOut

(* C5: for a table with non-empty data and no explicit headers, refinement *)
(* removes exactly the wholly blank rows, makes the first remaining row    *)
(* the headers and removes it from the data; no row of the refined data is *)
(* wholly blank.  (Blank is read as the code reads it: an empty or         *)
(* whitespace-only string, or None.)                                       *)
C5_BlankRowsPruned ==
    (rfPc = "once" /\ RfHasData(rfTable) /\ RfNoExplicitHeaders(rfTable)) =>
        LET remaining == SelectSeq(rfTable.data, AnyCellTruthy)
        IN  /\ remaining = <<>> => (rfOut.data = <<>> /\ rfOut.headers = <<>>)
            /\ remaining # <<>> =>
                  /\ rfOut.headers # <<>>
                  /\ RfCellsOf(rfOut.headers) \subseteq RfCellsOf(CleanRow(remaining[1]))
                  /\ Len(rfOut.data) = Len(remaining) - 1
            /\ \A i \in 1..Len(rfOut.data) : AnyCellTruthy(rfOut.data[i])

---------------------------------------------------------------------------
(* Vocabulary of the border claim: the segments of the page, counted as    *)
(* sets of (path, item) positions                                          *)

BdSegments ==
    {pos \in (1..Len(bdPage.paths)) \X (1..3) :
        /\ pos[2] <= Len(bdPage.paths[pos[1]].items)
        /\ bdPage.paths[pos[1]].items[pos[2]].kind = "l"}

BdItem(pos) == bdPage.paths[pos[1]].items[pos[2]]
BdLong(pos) ==
    (BdItem(pos).p1[1] - BdItem(pos).p0[1]) * (BdItem(pos).p1[1] - BdItem(pos).p0[1])
    + (BdItem(pos).p1[2] - BdItem(pos).p0[2]) * (BdItem(pos).p1[2] - BdItem(pos).p0[2])
        >= 100

BdHorizontalCount ==
    Cardinality({pos \in BdSegments :
                    BdLong(pos) /\ Abs(BdItem(pos).p1[2] - BdItem(pos).p0[2]) < 3})
BdVerticalCount ==
    Cardinality({pos \in BdSegments :
                    BdLong(pos) /\ Abs(BdItem(pos).p1[1] - BdItem(pos).p0[1]) < 3})
BdRectangleCount ==
    Cardinality({i \in 1..Len(bdPage.paths) : bdPage.paths[i].type = "rectangle"})
BdImageBlock == \E j \in 1..Len(bdPage.blocks) : bdPage.blocks[j] = 1

(* C8: when the inspection of the page raises nothing,                     *)
(* _detect_table_borders returns true if and only if (horizontal segments  *)
(* of length >= 10 number >= 5 and vertical ones >= 3) or rectangle        *)
(* drawings number >= 10 or the page has an image block.                   *)
C8_BorderRule ==
    (bdPc = "returned" /\ bdRaise = "none") =>
        (bdOut <=> \/ (BdHorizontalCount >= 5 /\ BdVerticalCount >= 3)
                   \/ BdRectangleCount >= 10
                   \/ BdImageBlock)

C8_Witness ==
    /\ bdPc = "returned" /\ bdRaise = "none"
    /\ BdHorizontalCount = 5 /\ BdVerticalCount = 3
    /\ BdRectangleCount = 0 /\ ~BdImageBlock
    /\ bdOut = TRUE

---------------------------------------------------------------------------
---------------------------------------------------------------------------
(* Vocabulary of the extraction claims *)

FallbackOrder == <<"camelot", "tabula", "pdfplumber">>

ExFallbackEnabled == Get(exCfg, "fallback_to_heuristic", TRUE)

\* the backends the call may reach, in the order it reaches them: the
\* primary one, then, with fallback enabled, the others in the fixed order
ExChain ==
    LET primary == IF exMethod \in Backends THEN <<exMethod>> ELSE <<>>
        others == SelectSeq(FallbackOrder, LAMBDA b : b # exMethod)
    IN  IF ExFallbackEnabled THEN primary \o others ELSE primary

ExReturned == exPc = "returned"

\* the returned table carries everything the backend's table carried
CarriesOver(returned, built) ==
    /\ Len(returned) = Len(built)
    /\ \A i \in 1..Len(built) :
          \A k \in DOMAIN built[i] : built[i][k] = returned[i][k]

(* C9: every table record returned by _extract_tables_unified has          *)
(* num_rows equal to the number of its rows and num_cols equal to the      *)
(* width of its first row, with header extraction enabled or disabled.     *)
C9_ShapeInvariant ==
    ExReturned =>
        \A i \in 1..Len(exTables) :
            /\ exTables[i].num_rows = Len(exTables[i].rows)
            /\ exTables[i].rows # <<>> =>
                   exTables[i].num_cols = Len(exTables[i].rows[1])

ExCallRaised(i) == exCalls[i].raised # "none"

(* C11: _extract_tables_unified never propagates an exception raised by a  *)
(* backend call: the call that raised counts as an empty result, and if    *)
(* backends of the chain remain (fallback enabled) the next one is tried.  *)
C11_NoPropagation ==
    /\ exPc # "raised"
    /\ \A i \in 1..Len(exCalls) :
          ExCallRaised(i) =>
             /\ exCalls[i].result = <<>>
             /\ (ExReturned /\ i < Len(ExChain)) =>
                    /\ Len(exCalls) > i
                    /\ exCalls[i + 1].backend = ExChain[i + 1]

\* the primary call raised out of its wrapper, the first fallback backend
\* was tried and returned tables
C11_Witness ==
    /\ ExReturned /\ Len(exCalls) = 2
    /\ exCalls[1].raised = "RuntimeError"
    /\ exCalls[2].result # <<>> /\ exTables # <<>>

\* the call went through its except clause
CpRaised == Len(cpGiven) >= 2 /\ ScanRaises(SortTables(cpGiven), 1)

(* C13: when an exception occurs during the merge scan, the call returns   *)
(* the list it was given: the same tables in the order they had before the *)
(* call.                                                                   *)
C13_ReturnsGivenList ==
    (CpReturned /\ CpRaised) => cpOut = cpGiven

---------------------------------------------------------------------------
(* Vocabulary of the extract_tables claims *)

DocReturned == docPc = "returned"

DocPageFailed(p) == docPages[p].raises # "none"

\* the entries of the result standing for the tables of page p: the ones
\* on page p, merged or not, and the merged ones that end on page p
DocEntriesOfPage(p) ==
    Cardinality({j \in 1..Len(docOut) : docOut[j].page = p})
    + Cardinality({j \in 1..Len(docOut) :
                      IsMergedTable(docOut[j]) /\ docOut[j].page_range[2] = p})

(* C12: a page whose processing raises does not make extract_tables raise, *)
(* the loop goes on to the end of the document, and every table of every   *)
(* page that did not fail is in the result, as itself or as a constituent  *)
(* of a cross-page table, wherever the failing page stands.                *)
C12_PageFailureIsolated ==
    /\ docPc # "raised"
    /\ (DocReturned /\ AnyLibraryAvailable(docLibs)) =>
          /\ docIdx = Len(docPages)
          /\ \A p \in 1..Len(docPages) :
                /\ DocPageFailed(p) => DocEntriesOfPage(p) = 0
                /\ ~DocPageFailed(p) =>
                      /\ DocEntriesOfPage(p) = Len(docPages[p].kinds)
                      /\ \A i \in 1..Len(docPages[p].kinds) :
                            \/ \E j \in 1..Len(docOut) : docOut[j].id = <<p, i>>
                            \/ \E j \in 1..Len(docOut) :
                                  /\ IsMergedTable(docOut[j])
                                  /\ docOut[j].page_range[2] = p

\* the middle page of three failed, the first and the last gave tables
C12_Witness ==
    /\ DocReturned /\ Len(docPages) = 3
    /\ docPages[1].kinds # <<>> /\ docPages[3].kinds # <<>>
    /\ docPages[2].raises = "RuntimeError"
    /\ \E j \in 1..Len(docOut) : docOut[j].page = 1
    /\ \E j \in 1..Len(docOut) : docOut[j].page = 3

(* C14: every merged table of the output is the merge of a table of the   *)
(* sorted list with its immediate successor there, and the successor is on *)
(* the next page: never the same page, never a page further, never a table *)
(* beyond the immediate successor.                                         *)
C14_SuccessorOnNextPage ==
    CpReturned =>
        \A k \in 1..Len(cpOut) :
            IsMergedTable(cpOut[k]) =>
                /\ cpOut[k].page_range[2] = cpOut[k].page_range[1] + 1
                /\ \E j \in 1..(Len(cpTables) - 1) :
                      /\ cpTables[j].id = cpOut[k].id
                      /\ cpTables[j].page = cpOut[k].page_range[1]
                      /\ cpTables[j + 1].page = cpTables[j].page + 1
                      /\ cpOut[k] = MergeTables(cpTables[j], cpTables[j + 1])

\* three tables, two of them related and on the same page, the third on
\* the next page: the same-page pair is left alone, one merge across pages
C14_Witness ==
    /\ CpReturned /\ Len(cpGiven) = 3 /\ Len(cpOut) = 2
    /\ cpTables[1].page = cpTables[2].page
    /\ AreTablesRelated(cpTables[1], cpTables[2])
    /\ ~IsMergedTable(cpOut[1]) /\ cpOut[1] = cpTables[1]
    /\ IsMergedTable(cpOut[2])
    /\ cpOut[2].page_range = <<cpTables[2].page, cpTables[3].page>>

\* the columns whose two entries, trimmed and case-folded, score above 0.8
MatchingColumns ==
    {i \in 1..Len(hdr1) :
        SimGt(StringSimilarity(Lower(Strip(hdr1[i])), Lower(Strip(hdr2[i]))), 8, 10)}

(* C16: for two non-empty header lists of one length n the result is true  *)
(* exactly when the columns scoring above 0.8 number more than 0.7 * n;    *)
(* with exactly 70% of the columns matching the result is false.           *)
C16_RatioThreshold ==
    (hdrPc = "returned" /\ hdr1 # <<>> /\ Len(hdr1) = Len(hdr2)) =>
        /\ hdrOut <=> (10 * Cardinality(MatchingColumns) > 7 * Len(hdr1))
        /\ 10 * Cardinality(MatchingColumns) = 7 * Len(hdr1) => hdrOut = FALSE

\* 7 of 10 columns match
C16_Witness ==
    /\ hdrPc = "returned" /\ Len(hdr1) = 10 /\ Len(hdr2) = 10
    /\ Cardinality(MatchingColumns) = 7
    /\ hdrOut = FALSE

---------------------------------------------------------------------------
(* Vocabulary of the relatedness claims *)

RelReturned == relPc = "returned"

HasData(t) == "data" \in DOMAIN t
HasBBox4(t) == "bbox" \in DOMAIN t /\ Len(t.bbox) >= 4

\* the signals a table really carries: rows, a header row, a geometry
\* other than the all-zero default
DataPresent(t) == HasData(t) /\ t.data # <<>>
HeaderPresent(t) == DataPresent(t) /\ t.data[1] # <<>>
BBoxPresent(t) == HasBBox4(t) /\ t.bbox # <<0, 0, 0, 0>>

FirstRowWidth(t) == Len(t.data[1])

\* a signal carried by both tables speaks against relatedness
RelContradicted(t1, t2) ==
    \/ DataPresent(t1) /\ DataPresent(t2) /\ FirstRowWidth(t1) # FirstRowWidth(t2)
    \/ HeaderPresent(t1) /\ HeaderPresent(t2)
          /\ ~AreHeadersSimilar(t1.data[1], t2.data[1])
    \/ BBoxPresent(t1) /\ BBoxPresent(t2) /\ ~WidthsWithin20Percent(t1, t2)

(* C15: a signal missing from one of the two tables (row data missing or   *)
(* empty, header row missing or empty, bbox missing or all zero) never     *)
(* makes the result false: the result is true unless a signal carried by   *)
(* both tables contradicts relatedness.                                    *)
C15_MissingSignalsLenient ==
    (RelReturned /\ ~RelContradicted(relT1, relT2)) => relOut = TRUE

C20_WidthTolerance ==
    (RelReturned /\ HasBBox4(relT1) /\ HasBBox4(relT2)) =>
        /\ relOut => WidthsWithin20Percent(relT1, relT2)
        /\ ~WidthsWithin20Percent(relT1, relT2) => relOut = FALSE
        /\ ( /\ 10 * Abs(BBoxWidth(relT1) - BBoxWidth(relT2))
                    = 2 * Max2(BBoxWidth(relT1), BBoxWidth(relT2))
             /\ ~HasData(relT1) /\ ~HasData(relT2) )
           => relOut = TRUE

\* widths 100 and 80: exactly 20% of the larger, related
C20_Witness ==
    /\ RelReturned
    /\ ~HasData(relT1) /\ ~HasData(relT2)
    /\ HasBBox4(relT1) /\ HasBBox4(relT2)
    /\ BBoxWidth(relT1) = 100 /\ BBoxWidth(relT2) = 80
    /\ relOut = TRUE

---------------------------------------------------------------------------
(* Vocabulary of the accounting and ordering claims *)

\* the number of tables of the sorted list that entry k of the output
\* stands for
CpSize(k) == IF IsMergedTable(cpOut[k]) THEN 2 ELSE 1

\* the position in the sorted list of the first table entry k stands for
RECURSIVE CpStart(_)
CpStart(k) == IF k = 1 THEN 1 ELSE CpStart(k - 1) + CpSize(k - 1)

CpMergedCount == Cardinality({k \in 1..Len(cpOut) : IsMergedTable(cpOut[k])})

\* the sorted list holds the tables given, each once
CpSamePopulation ==
    /\ Len(cpTables) = Len(cpGiven)
    /\ \A t \in CpElems(cpGiven) :
          Cardinality({j \in 1..Len(cpGiven) : cpGiven[j] = t})
              = Cardinality({j \in 1..Len(cpTables) : cpTables[j] = t})

(* C17: for n >= 2 tables the output has between ceil(n/2) and n entries   *)
(* and stands for every input table exactly once: entry after entry it is  *)
(* the next table unchanged or the merge of the next two.                  *)
C17_EveryTableOnce ==
    (CpReturned /\ Len(cpGiven) >= 2) =>
        /\ Len(cpOut) <= Len(cpGiven)
        /\ 2 * Len(cpOut) >= Len(cpGiven)
        /\ CpSamePopulation
        /\ Len(cpOut) + CpMergedCount = Len(cpGiven)
        /\ \A k \in 1..Len(cpOut) :
              /\ CpStart(k) + CpSize(k) - 1 <= Len(cpTables)
              /\ IF IsMergedTable(cpOut[k])
                 THEN cpOut[k] = MergeTables(cpTables[CpStart(k)],
                                             cpTables[CpStart(k) + 1])
                 ELSE cpOut[k] = cpTables[CpStart(k)]

\* three tables in, two out: one merged pair and one table unchanged
C17_Witness ==
    /\ CpReturned /\ Len(cpGiven) = 3 /\ Len(cpOut) = 2
    /\ CpMergedCount = 1
    /\ \E k \in 1..2 : ~IsMergedTable(cpOut[k]) /\ cpOut[k] \in CpElems(cpGiven)

\* the key of an output table: its page and the top y of its bbox, 0
\* without a bbox of two coordinates or more
CpKey(t) ==
    <<t.page, IF "bbox" \in DOMAIN t /\ Len(t.bbox) >= 2 THEN t.bbox[2] ELSE 0>>

CpKeyBefore(k1, k2) == k1[1] < k2[1] \/ (k1[1] = k2[1] /\ k1[2] < k2[2])

\* where the table with this id stood in the list given
CpGivenPosition(id) == CHOOSE j \in 1..Len(cpGiven) : cpGiven[j].id = id

(* C18: the output is in non-decreasing order of the key (page, top y of   *)
(* the bbox, 0 without one), a merged table having the key of its first    *)
(* constituent, and tables of equal key keep the order they were given in. *)
C18_StableKeyOrder ==
    (CpReturned /\ Len(cpGiven) >= 2) =>
        \A k, l \in 1..Len(cpOut) :
            k < l =>
                /\ ~CpKeyBefore(CpKey(cpOut[l]), CpKey(cpOut[k]))
                /\ CpKey(cpOut[k]) = CpKey(cpOut[l]) =>
                      CpGivenPosition(cpOut[k].id) < CpGivenPosition(cpOut[l].id)

\* given out of order, with two tables of one key: returned in key order,
\* the two in the order given
C18_Witness ==
    /\ CpReturned /\ Len(cpGiven) = 3 /\ Len(cpOut) = 3
    /\ CpKey(cpGiven[1]) = CpKey(cpGiven[2])
    /\ "bbox" \notin DOMAIN cpGiven[1] /\ "bbox" \in DOMAIN cpGiven[2]
    /\ CpKeyBefore(CpKey(cpGiven[3]), CpKey(cpGiven[1]))
    /\ cpOut = <<cpGiven[3], cpGiven[1], cpGiven[2]>>

\* table_extraction.method as configured, 'auto' when it is not
ExConfiguredMethod == IF "method" \in DOMAIN exCfg THEN exCfg.method ELSE "auto"

\* the entry of table_types for this page's border classification, with the
\* defaults camelot (bordered) and tabula (borderless)
ExTableTypeChoice ==
    LET key == IF exIn.has_borders THEN "bordered" ELSE "borderless"
        default == IF exIn.has_borders THEN "camelot" ELSE "tabula"
    IN  IF "table_types" \in DOMAIN exCfg /\ key \in DOMAIN exCfg.table_types
        THEN exCfg.table_types[key] ELSE default

C22_NoLibraries ==
    (docLibs = NoLibraries /\ docPc \notin {"idle", "args"}) =>
        /\ docPc = "returned"
        /\ docOut = <<>>
        /\ docIdx = 0 /\ docAll = <<>>

\* a document of three pages, no library
C22_Witness ==
    /\ docLibs = NoLibraries /\ DocReturned
    /\ Len(docPages) = 3 /\ docOut = <<>> /\ docIdx = 0

\* a table with content: it has rows, or data
DocHasContent(t) ==
    Get(t, "rows", <<>>) # <<>> \/ Get(t, "data", <<>>) # <<>>

DocIsRefined(t) == "refined" \in DOMAIN t /\ t.refined = TRUE

(* C23: every table with content that extract_tables has collected for the *)
(* cross-page pass, and every table it returns, carries refined = true.    *)
C23_AllRefined ==
    /\ docPc = "pages" =>
          \A i \in 1..Len(docAll) : DocHasContent(docAll[i]) => DocIsRefined(docAll[i])
    /\ DocReturned =>
          \A i \in 1..Len(docOut) : DocHasContent(docOut[i]) => DocIsRefined(docOut[i])

---------------------------------------------------------------------------
(* Vocabulary of the request batching claims *)

BtTaskIds == 1..Len(btTasks)

\* one result per request of the list, in the order of the list
OneResultPerRequest(results, batch) ==
    results = [i \in 1..Len(batch) |-> ResultOf(batch[i])]

(* C24: whatever the attempts of the requests do, a call of                *)
(* _process_request_batch that returns (rather than raises) returns one    *)
(* result per request of its batch, in request order.                      *)
C24_NoResultMissing ==
    \A t \in BtTaskIds :
        (btTasks[t].kind = "batch" /\ btTasks[t].pc = "done") =>
            OneResultPerRequest(btTasks[t].results, btLists[1])

(* C25: under every interleaving of _add_to_batch and _flush_batch         *)
(* coroutines no request is executed twice, and once a _flush_batch that   *)
(* was called after a request was added has completed, that request has    *)
(* been executed exactly once.                                             *)
C25_ExecutedExactlyOnce ==
    btCfg.enabled =>
        /\ \A r \in BtTaskIds : btExecuted[r] <= 1
        /\ \A r, f \in BtTaskIds :
              (/\ btTasks[r].kind = "image" /\ btTasks[f].kind = "flush"
               /\ r < f /\ btTasks[f].pc = "done") => btExecuted[r] = 1

(* C26: with batching enabled, a call of _process_image_with_gemini that   *)
(* returns a value other than None returns the result of the image it was  *)
(* given.                                                                  *)
C26_OwnResult ==
    btCfg.enabled =>
        \A t \in BtTaskIds :
            (/\ btTasks[t].kind = "image" /\ btTasks[t].pc = "done"
             /\ btTasks[t].ret # NoneResult) =>
                btTasks[t].ret = ResultOf(btTasks[t].image)

\* the calls of backend b the invocation has made
ExCallsOf(b) == {i \in 1..Len(exCalls) : exCalls[i].backend = b}

MergedFromData(o, a, b) ==
    /\ IsMergedTable(o) /\ ~IsMergedTable(a) /\ ~IsMergedTable(b)
    /\ "data" \in DOMAIN a /\ "data" \in DOMAIN b
    /\ o = MergeTables(a, b)

(* C28: whenever _handle_cross_page_tables merges two tables that both     *)
(* have a data field, the first rows of the two are header-similar, and    *)
(* the merged data is the first table's rows followed by the second        *)
(* table's rows without its first one: len(data1) + len(data2) - 1 rows.   *)
(* The second table's first row is never kept.                             *)
C28_HeaderRowDropped ==
    CpReturned =>
        \A o \in CpElems(cpOut) : \A a, b \in CpElems(cpGiven) :
            MergedFromData(o, a, b) =>
                /\ a.data # <<>> /\ b.data # <<>>
                /\ AreHeadersSimilar(a.data[1], b.data[1])
                /\ Len(o.data) = Len(a.data) + Len(b.data) - 1
                /\ o.data = a.data \o Tail(b.data)

\* two data tables with similar first rows on pages 1 and 2 are merged into
\* three rows; the data table of page 3, with the same column count and a
\* first row that is not similar, stays apart
C28_Witness ==
    /\ CpReturned /\ Len(cpGiven) = 3 /\ Len(cpOut) = 2
    /\ MergedFromData(cpOut[1], cpGiven[1], cpGiven[2])
    /\ Len(cpOut[1].data) = 3
    /\ cpOut[2] = cpGiven[3] /\ cpGiven[3].page = 3
    /\ "data" \in DOMAIN cpGiven[3] /\ cpGiven[3].data = DfX
    /\ ~AreHeadersSimilar(cpGiven[2].data[1], cpGiven[3].data[1])

\* the entries of h that are not blank after trimming
NonBlankEntries(h) == {j \in 1..Len(h) : Strip(h[j]) # <<>>}

(* C29: _are_headers_similar(h, h) on a non-empty header list h is true    *)
(* exactly when strictly more than 70% of the entries of h are non-blank   *)
(* after trimming.                                                         *)
C29_SelfSimilarIffMostlyNonBlank ==
    (hdrPc = "returned" /\ hdr1 = hdr2 /\ hdr1 # <<>>) =>
        (hdrOut <=> 10 * Cardinality(NonBlankEntries(hdr1)) > 7 * Len(hdr1))

\* ten entries of which seven are non-blank: exactly 70%, not similar to
\* itself
C29_Witness ==
    /\ hdrPc = "returned" /\ hdr1 = hdr2 /\ Len(hdr1) = 10
    /\ Cardinality(NonBlankEntries(hdr1)) = 7 /\ hdrOut = FALSE

(* C30: after _refine_table_structure on a table with non-empty data       *)
(* (ragged rows and explicit headers included) all rows of the refined     *)
(* data have the same width, the number of refined headers.                *)
C30_UniformWidth ==
    (rfPc = "once" /\ RfHasData(rfTable)) =>
        \A i \in 1..Len(rfOut.data) : Len(rfOut.data[i]) = Len(rfOut.headers)

(* C6: _string_similarity(s, s) is 1.0 for every non-empty string s, and   *)
(* _string_similarity("", x) is 0.0 for every string x.  As stated (any    *)
(* non-empty s, whitespace-only included):                                 *)
C6_AsStated ==
    ssPc = "returned" =>
        /\ (ssA # <<>> /\ ssA = ssB) => SimIsOne(ssOut)
        /\ ssA = <<>> => SimIsZero(ssOut)

(* C6 amended: _string_similarity(s, s) is 1.0 for every s that is         *)
(* non-empty after trimming whitespace and 0.0 for a whitespace-only or    *)
(* empty s; _string_similarity("", x) is 0.0 for every x.                  *)
C6_SelfSimilarity ==
    ssPc = "returned" =>
        /\ (ssA = ssB /\ Strip(ssA) # <<>>) => SimIsOne(ssOut)
        /\ (ssA = ssB /\ Strip(ssA) = <<>>) => SimIsZero(ssOut)
        /\ ssA = <<>> => SimIsZero(ssOut)

C6_Witness ==
    /\ ssPc = "returned"
    /\ ssA = ssB
    /\ ssA = <<"a", " ", "A">>
    /\ SimIsOne(ssOut)

(* C7: _are_headers_similar(h1, h2) is false for every pair of header      *)
(* lists of different lengths, whatever their contents.                    *)
C7_LengthMismatch ==
    (hdrPc = "returned" /\ Len(hdr1) # Len(hdr2)) => hdrOut = FALSE

C7_Witness ==
    /\ hdrPc = "returned"
    /\ hdr1 = <<<<"a", "b">>, <<"a", "b">>>>
    /\ hdr2 = <<<<"a", "b">>, <<"a", "b">>, <<"a", "c">>>>
    /\ hdrOut = FALSE

=============================================================================
